---- MODULE Spec2Model ----
(***************************************************************************)
(* Model of the camera control protocol server of SCTSC                    *)
(* (sctcamsoft/server.py, sctcamsoft/camera_control_classes.py).           *)
(*                                                                         *)
(* Python values are tagged records: None, Str("x"), Float(n).  A dict     *)
(* whose iteration order matters (the manager registry) is a sequence of   *)
(* [key, val] records; argument dicts are functions from names to values.  *)
(* An exception is a record [cls, device, message]; the classes derived    *)
(* from CameraControlError are the control errors.                         *)
(***************************************************************************)
EXTENDS Integers, Sequences, FiniteSets, TLC

VARIABLES
    managers,       \* ServerController._managers: ordered dict name -> manager
    previousRun,    \* run number kept in previousRun.txt by run_control
    mgr_in,         \* the update last passed to a manager's process_update
    mgr_out,        \* what that call returned or raised
    mgr_seq,        \* parity of the number of process_update calls made
    parse_in,       \* the UserCommand last passed to _parse_user_command
    parse_out,      \* what that call returned or raised
    exec_in,        \* the DeviceCommand last passed to the server's own
                    \* execute_command
    exec_out,       \* what that call returned or raised
    exec_seq,       \* parity of the number of such calls made
    updates,        \* ServerController._updates, the pending list
    timers,         \* ServerController._timers: ordered dict name -> timer
    timer_heap,     \* the timer dicts created so far, each with the state
                    \* of the threading.Timer armed for it
    pc,             \* position of run_server within its loop body
    received,       \* the command communicate_user returned for this tick
    dispatched,     \* DeviceCommands passed to a controller this tick
    tick_error,     \* the exception raised in this tick, None if none
    error_step,     \* the step of the tick that raised it
    inspected,      \* the process_update calls of this tick's manager loop:
                    \* the manager's key and the update's position
    conns,          \* the connections accepted so far: socket, registration
                    \* in the selector, and what the peer sent or was sent
    backlog,        \* clients connected to a listening socket, not accepted
    serial,         \* number of updates produced so far
    read_log,       \* the commands _read parsed in the last exchange
    header_length,  \* config['header_length'], shared by server and client
    wire,           \* the bytes the server sent that the client has not read
    pending,        \* the batch of updates of the last _write, if any
    decoded,        \* what the client's last recv_updates returned or raised
    list_in,        \* the list last passed to _execute_device_command_list
    shared_timer,   \* a timer dict shared by its callback and the main loop
    thread,         \* the threading.Timer thread of that dict: its position
                    \* in start_timer and its local num_executions
    timed_pc,       \* the main loop's position in _execute_timed_commands
    executions      \* times the command list of that dict was executed

execVars == <<exec_in, exec_out, exec_seq>>
callVars == <<mgr_in, mgr_out, mgr_seq, parse_in, parse_out, execVars>>
serverVars ==
    <<updates, timers, timer_heap, pc, received, dispatched,
      tick_error, error_step, inspected>>
transportVars == <<conns, backlog, serial, read_log>>
frameVars == <<header_length, wire, pending, decoded>>
raceVars == <<shared_timer, thread, timed_pc, executions>>
sideVars == <<frameVars, list_in, raceVars>>
vars ==
    <<managers, previousRun, callVars, serverVars, transportVars, sideVars>>

----------------------------------------------------------------------------
(* Bounds *)

MaxRunId == 2

----------------------------------------------------------------------------
(* Python values *)

None == [t |-> "None"]
Str(s) == [t |-> "str", s |-> s]
Float(n) == [t |-> "float", n |-> n]
PyInt(n) == [t |-> "int", n |-> n]
PyBool(b) == [t |-> "bool", b |-> b]
PyList(items) == [t |-> "list", items |-> items]

EmptyDict == [k \in {} |-> None]

\* ordered dict (insertion order kept, as Python dicts do)
OKeys(d) == {d[i].key : i \in 1..Len(d)}
OHas(d, k) == k \in OKeys(d)
OIndex(d, k) == CHOOSE i \in 1..Len(d) : d[i].key = k
OGet(d, k) == d[OIndex(d, k)].val
OSet(d, k, v) ==
    IF OHas(d, k)
    THEN [d EXCEPT ![OIndex(d, k)] = [key |-> k, val |-> v]]
    ELSE Append(d, [key |-> k, val |-> v])
\* a deletion that leaves the dict as it is
ODelNothing(d, k) == d

ODel(d, k) ==
    LET i == OIndex(d, k)
    IN  SubSeq(d, 1, i - 1) \o SubSeq(d, i + 1, Len(d))

\* the server as ServerController.__init__ leaves it, before run_server
InitServerVars ==
    /\ updates = << >>
    /\ timers = << >>
    /\ timer_heap = << >>
    /\ pc = "communicate"
    /\ received = None
    /\ dispatched = << >>
    /\ tick_error = None
    /\ error_step = "none"
    /\ inspected = << >>
    /\ conns = << >>
    /\ backlog = [input |-> 0, output |-> 0]
    /\ serial = 0
    /\ read_log = << >>
    /\ header_length = 1
    /\ wire = << >>
    /\ pending = << >>
    /\ decoded = None
    /\ list_in = None
    /\ shared_timer = None
    /\ thread = None
    /\ timed_pc = "none"
    /\ executions = 0

----------------------------------------------------------------------------
(* camera_control_classes.py *)

ControlErrorClasses ==
    {"CameraControlError", "CommandArgumentError", "CommandExecutionError",
     "CommandNameError", "CommandSequenceError", "CommunicationError",
     "ConfigurationError", "DeviceNameError", "VariableError"}

Error(cls, device, message) ==
    [cls |-> cls, device |-> device, message |-> message]

IsControlError(err) == err.cls \in ControlErrorClasses

\* Update(device, variable, unit) followed by add_value calls: values is
\* the list of (value_id, value) pairs; device and unit are values, variable
\* is the text the code writes
Update(device, variable, unit, values) ==
    [device |-> device, variable |-> variable, unit |-> unit,
     values |-> values]

UserCommand(command, args) == [command |-> command, args |-> args]

\* results of a call: a returned value or a raised exception
Return(v) == [kind |-> "return", value |-> v]
Raise(err) == [kind |-> "raise", error |-> err]
NoCall == [kind |-> "nocall"]

----------------------------------------------------------------------------
(* RunManager *)

transitions ==
    {<<"IDLE", "define_run", "DEFINED">>,
     <<"DEFINED", "initialize_run", "INITIALIZED">>,
     <<"DEFINED", "end_run", "TERMINATED">>,
     <<"INITIALIZED", "start_run", "ACTIVE">>,
     <<"INITIALIZED", "end_run", "TERMINATED">>,
     <<"ACTIVE", "end_run", "COMPLETE">>,
     <<"ACTIVE", "read_rate", "ACTIVE">>,
     <<"COMPLETE", "clear_run", "IDLE">>,
     <<"TERMINATED", "clear_run", "IDLE">>}

instructions == {t[2] : t \in transitions}

InTransitions(state, instruction) ==
    \E t \in transitions : t[1] = state /\ t[2] = instruction

\* a table in which end_run always completes the run
TransitionTargetEndCompletes(state, instruction) ==
    IF instruction = "end_run"
    THEN "COMPLETE"
    ELSE (CHOOSE t \in transitions : t[1] = state /\ t[2] = instruction)[3]

TransitionTarget(state, instruction) ==
    (CHOOSE t \in transitions : t[1] = state /\ t[2] = instruction)[3]

adc_interval == 30
run_interval == 1800
start_thresh == 600
stop_thresh == 0
max_spacing == 50
min_spacing == 10

RunManager ==
    [cls |-> "RunManager", name |-> "run_manager", state |-> "IDLE",
     run_type |-> None, run_id |-> None,
     prev_thresh |-> None, prev_rate |-> None]

\* run_control.incrementRunNumber: previousRun + 1, written back to the file
incrementRunNumber(prev) == prev + 1

\* the instruction process_update derives from an update, "" when it
\* returns None before looking at the transition table
RunInstruction(update) ==
    IF update.device = Str("target") /\ update.variable = "trigger_rate"
    THEN "read_rate"
    ELSE IF update.device = Str("server")
         THEN IF update.variable \in instructions THEN update.variable ELSE ""
         ELSE ""

\* "start_{}".format(self.run_type)
StartCommandName(run_type) ==
    CASE run_type = Str("data_run") -> "start_data_run"
      [] run_type = Str("rate_scan") -> "start_rate_scan"
      [] OTHER -> "start_None"

\* "end_{}".format(self.run_type)
EndCommandName(run_type) ==
    CASE run_type = Str("data_run") -> "end_data_run"
      [] run_type = Str("rate_scan") -> "end_rate_scan"
      [] OTHER -> "end_None"

\* the branch of process_update taken after the state assignment;
\* rm already carries the new state
RunBranch(rm, instruction, update, prev) ==
    CASE instruction = "define_run" ->
           [mgr |-> [rm EXCEPT !.run_id = Float(incrementRunNumber(prev)),
                               !.prev_thresh = None, !.prev_rate = None],
            out |-> Return(None), prev |-> incrementRunNumber(prev)]
      [] instruction \in {"initialize_data_run", "initialize_rate_scan"} ->
           [mgr |-> [rm EXCEPT !.run_type =
                        Str(IF instruction = "initialize_data_run"
                            THEN "data_run" ELSE "rate_scan")],
            out |-> Return(UserCommand("initialize_run",
                                       [run_id |-> rm.run_id])),
            prev |-> prev]
      [] instruction = "start_run" ->
           [mgr |-> rm,
            out |-> Return(UserCommand(
                       StartCommandName(rm.run_type),
                       IF rm.run_type = Str("data_run")
                       THEN [adc_interval |-> Float(adc_interval),
                             end_run_interval |-> Float(run_interval)]
                       ELSE IF rm.run_type = Str("rate_scan")
                            THEN [thresh |-> Float(start_thresh)]
                            ELSE EmptyDict)),
            prev |-> prev]
      [] instruction = "read_rate" ->
           \* update.values is the list built by Update.add_value, and
           \* update.values['thresh'] indexes that list with a string
           [mgr |-> rm,
            out |-> Raise(Error("TypeError", None,
                                <<"list indices must be integers">>)),
            prev |-> prev]
      [] instruction = "end_run" ->
           [mgr |-> rm,
            out |-> IF rm.state = "COMPLETE"
                    THEN Return(UserCommand(
                             EndCommandName(rm.run_type), EmptyDict))
                    ELSE Return(None),
            prev |-> prev]
      [] instruction = "clear_run" ->
           [mgr |-> [rm EXCEPT !.run_id = None, !.run_type = None],
            out |-> Return(None), prev |-> prev]
      [] OTHER ->
           [mgr |-> rm, out |-> Return(None), prev |-> prev]

\* RunManager.process_update(update); prev is the stored run number
RunProcessUpdate(rm, update, prev) ==
    LET instruction == RunInstruction(update)
    IN  IF instruction = ""
        THEN [mgr |-> rm, out |-> Return(None), prev |-> prev]
        ELSE IF ~InTransitions(rm.state, instruction)
             THEN [mgr |-> rm,
                   out |-> Raise(Error("CommandSequenceError", Str("server"),
                                <<instruction,
                                  "is not a valid instruction in run state",
                                  rm.state>>)),
                   prev |-> prev]
             ELSE RunBranch(
                     [rm EXCEPT !.state =
                          TransitionTarget(rm.state, instruction)],
                     instruction, update, prev)

----------------------------------------------------------------------------
(* AlertManager *)

\* the texts float() accepts, with the number each denotes
NumericText == {"-1", "0", "1", "2", "5", "7", "10", "15"}
NumberOf(s) ==
    CASE s = "-1" -> -1 [] s = "0" -> 0 [] s = "1" -> 1 [] s = "2" -> 2
      [] s = "5" -> 5 [] s = "7" -> 7 [] s = "10" -> 10 [] s = "15" -> 15

\* float(value)
PyFloat(value) ==
    CASE value.t = "float" -> Return(value)
      [] value.t = "int" -> Return(Float(value.n))
      [] value.t = "bool" -> Return(Float(IF value.b THEN 1 ELSE 0))
      [] value.t = "str" ->
           IF value.s \in NumericText
           THEN Return(Float(NumberOf(value.s)))
           ELSE Raise(Error("ValueError", None,
                            <<"could not convert string to float">>))
      [] value.t = "message" ->
           Raise(Error("ValueError", None,
                       <<"could not convert string to float">>))
      [] OTHER -> Raise(Error("TypeError", None,
                              <<"float() argument must be a string",
                                "or a number">>))

\* a <= b, which Python refuses between a str and a float
PyLessEqual(a, b) ==
    IF a.t = "float" /\ b.t = "float"
    THEN Return(a.n <= b.n)
    ELSE IF a.t = "str" /\ b.t = "str"
         THEN Return(TRUE)   \* texts are ordered; never reached with a float
         ELSE Raise(Error("TypeError", None,
                          <<"'<=' not supported between instances">>))

\* not (self.lower_limit <= alert_value <= self.upper_limit); the second
\* comparison is made only when the first holds
OutsideLimits(am, alert_value) ==
    LET first == PyLessEqual(am.lower_limit, alert_value)
    IN  IF first.kind = "raise"
        THEN first
        ELSE IF ~first.value
             THEN Return(TRUE)
             ELSE LET second == PyLessEqual(alert_value, am.upper_limit)
                  IN  IF second.kind = "raise"
                      THEN second
                      ELSE Return(~second.value)

\* AlertManager(name, device, variable, lower_limit, upper_limit)
AlertManager(name, device, variable, lower_limit, upper_limit) ==
    [cls |-> "AlertManager", name |-> name, device |-> device,
     variable |-> variable, lower_limit |-> lower_limit,
     upper_limit |-> upper_limit, alerted |-> FALSE]

\* the test that sets the flag and issues the alert, without "not alerted"
IssuesAlertEveryTime(outside_limits, alerted) == outside_limits

\* outside_limits and not self.alerted
IssuesAlert(outside_limits, alerted) == outside_limits /\ ~alerted

\* not outside_limits and self.alerted
ClearsAlert(outside_limits, alerted) == ~outside_limits /\ alerted

RECURSIVE AlertValuesLoop(_, _, _)

\* the loop over update.values from position i, which returns at the first
\* pair that flips the flag
AlertValuesLoop(am, update, i) ==
    IF i > Len(update.values)
    THEN [mgr |-> am, out |-> Return(None)]
    ELSE IF ~(update.device = am.device
              /\ Str(update.variable) = am.variable)
         THEN AlertValuesLoop(am, update, i + 1)
         ELSE LET value_id == update.values[i][1]
                  value == update.values[i][2]
                  alert_value == PyFloat(value)
              IN  IF alert_value.kind = "raise"
                  THEN [mgr |-> am,
                        out |-> IF alert_value.error.cls = "ValueError"
                                THEN Raise(Error("VariableError",
                                         update.device,
                                         <<update.variable, value,
                                           "could not convert to float for alert">>))
                                ELSE alert_value]
                  ELSE LET outside_limits ==
                               OutsideLimits(am, alert_value.value)
                       IN  IF outside_limits.kind = "raise"
                           THEN [mgr |-> am, out |-> outside_limits]
                           ELSE IF IssuesAlert(outside_limits.value,
                                               am.alerted)
                           THEN [mgr |-> [am EXCEPT !.alerted = TRUE],
                                 out |-> Return(UserCommand("issue_alert",
                                     [name |-> am.name,
                                      value |-> value,
                                      value_id |-> Str(value_id),
                                      lower_limit |-> am.lower_limit,
                                      upper_limit |-> am.upper_limit,
                                      unit |-> update.unit]))]
                           ELSE IF ClearsAlert(outside_limits.value,
                                               am.alerted)
                           THEN [mgr |-> [am EXCEPT !.alerted = FALSE],
                                 out |-> Return(UserCommand("clear_alert",
                                     [name |-> am.name]))]
                           ELSE AlertValuesLoop(am, update, i + 1)

\* AlertManager.process_update(update)
AlertProcessUpdate(am, update) == AlertValuesLoop(am, update, 1)

----------------------------------------------------------------------------
(* One alert manager fed arbitrary updates *)

MaxValues == 2

AlertValues == {Float(5), Float(15), Str("abc")}

\* add_value(value, value_id) for each value: the ids of a multi-valued
\* update are its positions, the id of a single value is ''
ValuesOf(vals) ==
    [i \in 1..Len(vals) |->
        <<IF Len(vals) = 1 THEN ""
          ELSE CASE i = 1 -> "1" [] i = 2 -> "2" [] i = 3 -> "3"
                 [] OTHER -> "4",
          vals[i]>>]

AlertUpdates ==
    {Update(Str(d), v, Str("C"), ValuesOf(vals)) :
        d \in {"fee_temperature", "shutter"},
        v \in {"temperature", "open_sensor"},
        vals \in UNION {[1..n -> AlertValues] : n \in 0..MaxValues}}

InitAlert ==
    /\ managers = <<[key |-> Str("a1"),
                     val |-> AlertManager(Str("a1"), Str("fee_temperature"),
                                          Str("temperature"),
                                          Float(0), Float(10))]>>
    /\ previousRun = 0
    /\ mgr_in = None
    /\ mgr_out = NoCall
    /\ mgr_seq = 0
    /\ parse_in = None
    /\ parse_out = NoCall
    /\ exec_in = None
    /\ exec_out = NoCall
    /\ exec_seq = 0
    /\ InitServerVars

AlertFeed ==
    \E u \in AlertUpdates :
        LET r == AlertProcessUpdate(OGet(managers, Str("a1")), u)
        IN  /\ managers' = OSet(managers, Str("a1"), r.mgr)
            /\ mgr_in' = u
            /\ mgr_out' = r.out
            /\ mgr_seq' = 1 - mgr_seq
            /\ UNCHANGED <<previousRun, parse_in, parse_out, execVars,
                           serverVars, transportVars,
                   sideVars>>

NextAlert == AlertFeed

SpecAlert == InitAlert /\ [][NextAlert]_vars

----------------------------------------------------------------------------
(* Command definition table (the commands file handed to ServerController) *)

\* a leaf has device and command, a composite has command_list; the args
\* of a composite route a top-level name to the argument arg of the
\* sub-command at position index (counted from 0), with an optional val
user_commands ==
    [read_open_sensor |->
        [device |-> Str("shutter"), command |-> "read_open_sensor"],
     read_temperature |->
        [device |-> Str("fee_temperature"), command |-> "read_temperature",
         args |-> [run_num |-> None]],
     heater_on |->
        [device |-> Str("heater"), command |-> "turn_on",
         args |-> [level |-> Str("1")]],
     set_alert |->
        [device |-> Str("server"), command |-> "set_alert",
         args |-> [name |-> None, device |-> None, variable |-> None,
                   lower_limit |-> None, upper_limit |-> None]],
     set_temperature_alert |->
        [device |-> Str("server"), command |-> "set_alert",
         args |-> [name |-> Str("hot"), device |-> Str("fee_temperature"),
                   variable |-> Str("temperature"),
                   lower_limit |-> Float(0), upper_limit |-> Float(10)]],
     set_sensor_alert |->
        [device |-> Str("server"), command |-> "set_alert",
         args |-> [name |-> Str("open"), device |-> Str("shutter"),
                   variable |-> Str("open_sensor"),
                   lower_limit |-> Float(1), upper_limit |-> Float(1)]],
     unset_alert |->
        [device |-> Str("server"), command |-> "unset_alert",
         args |-> [name |-> None]],
     issue_alert |->
        [device |-> Str("server"), command |-> "issue_alert",
         args |-> [name |-> None, value |-> None, value_id |-> None,
                   lower_limit |-> None, upper_limit |-> None,
                   unit |-> None]],
     clear_alert |->
        [device |-> Str("server"), command |-> "clear_alert",
         args |-> [name |-> None]],
     modify_repeating_command |->
        [device |-> Str("server"), command |-> "modify_repeating_command",
         args |-> [name |-> None, arg |-> None, value |-> None]],
     stop_repeating_command |->
        [device |-> Str("server"), command |-> "stop_repeating_command",
         args |-> [name |-> None, no_command_is_error |-> Str("1")]],
     enter_repeat_mode |->
        [device |-> None, command |-> "enter_repeat_mode",
         args |-> [name |-> None, interval |-> Str("1"),
                   num_executions |-> Str("0"),
                   execute_immediately |-> Str("")]],
     exit_repeat_mode |->
        [device |-> None, command |-> "exit_repeat_mode"],
     monitor_temperature |->
        [command_list |-> <<"read_open_sensor", "enter_repeat_mode",
                            "read_temperature", "exit_repeat_mode">>,
         args |-> [name |-> [index |-> 1, arg |-> "name"],
                   period |-> [index |-> 1, arg |-> "interval",
                               val |-> Str("2")],
                   count |-> [index |-> 1, arg |-> "num_executions",
                              val |-> Str("0")],
                   run |-> [index |-> 2, arg |-> "run_num"]]],
     check_camera |->
        [command_list |-> <<"read_temperature", "monitor_temperature",
                            "read_open_sensor">>,
         args |-> [run |-> [index |-> 0, arg |-> "run_num"],
                   name |-> [index |-> 1, arg |-> "name",
                             val |-> Str("t1")]]]]

DeviceCommand(device, command, args) ==
    [device |-> device, command |-> command, args |-> args]

\* cmd_def.get('args', {})
DefArgs(cmd_def) ==
    IF "args" \in DOMAIN cmd_def THEN cmd_def.args ELSE EmptyDict

IsLeaf(cmd_def) ==
    "device" \in DOMAIN cmd_def /\ "command" \in DOMAIN cmd_def

----------------------------------------------------------------------------
(* ServerController._parse_user_command *)

\* {**a, **b} with the two operands taken the other way round
DictMergeDefaultsWin(a, b) ==
    [k \in (DOMAIN a) \cup (DOMAIN b) |-> IF k \in DOMAIN a THEN a[k] ELSE b[k]]

\* {**a, **b}
DictMerge(a, b) ==
    [k \in (DOMAIN a) \cup (DOMAIN b) |-> IF k \in DOMAIN b THEN b[k] ELSE a[k]]

\* get_command_args: the missing-argument test iterates over the keys of
\* cmd_args and asks whether the key itself is None
get_command_args(args, user_input, device, command) ==
    LET cmd_args == DictMerge(args, user_input)
        missing_args == {a \in DOMAIN cmd_args : Str(a) = None}
        extra_args == (DOMAIN cmd_args) \ (DOMAIN args)
    IN  IF missing_args # {}
        THEN Raise(Error("CommandArgumentError", device,
                         <<command, CHOOSE a \in missing_args : TRUE,
                           "missing argument">>))
        ELSE IF extra_args # {}
             THEN Raise(Error("CommandArgumentError", device,
                              <<command, CHOOSE a \in extra_args : TRUE,
                                "extra argument">>))
             ELSE Return(cmd_args)

\* the arguments of the composite routed to the sub-command at index
\* (counted from 0): sub_arg_names, sub_args and sub_user_input
SubArgNames(args, index) == {a \in DOMAIN args : args[a].index = index}
SubArgs(args, index) ==
    LET names == SubArgNames(args, index)
    IN  [s \in {args[a].arg : a \in names} |->
            LET a == CHOOSE a \in names : args[a].arg = s
            IN  IF "val" \in DOMAIN args[a] THEN args[a].val ELSE None]
SubUserInput(args, user_input, index) ==
    LET names == SubArgNames(args, index) \cap (DOMAIN user_input)
    IN  [s \in {args[a].arg : a \in names} |->
            user_input[CHOOSE a \in names : args[a].arg = s]]

\* device_commands.extend(device_subcommands), at the front
ExtendAtFront(device_commands, device_subcommands) ==
    device_subcommands \o device_commands

\* device_commands.extend(device_subcommands)
Extend(device_commands, device_subcommands) ==
    device_commands \o device_subcommands

RECURSIVE ParseUserCommand(_)
RECURSIVE ParseCommandList(_, _, _)

\* the loop over cmd_def['command_list'], from position i (counted from 1)
\* with device_commands collected so far
ParseCommandList(user_command, i, device_commands) ==
    LET cmd_def == user_commands[user_command.command]
        args == DefArgs(cmd_def)
    IN  IF i > Len(cmd_def.command_list)
        THEN Return(device_commands)
        ELSE LET cmd_args == get_command_args(
                     SubArgs(args, i - 1),
                     SubUserInput(args, user_command.args, i - 1),
                     Str("server"), user_command.command)
             IN  IF cmd_args.kind = "raise"
                 THEN cmd_args
                 ELSE LET device_subcommands == ParseUserCommand(
                            UserCommand(cmd_def.command_list[i],
                                        cmd_args.value))
                      IN  IF device_subcommands.kind = "raise"
                          THEN device_subcommands
                          ELSE ParseCommandList(
                                   user_command, i + 1,
                                   Extend(device_commands,
                                          device_subcommands.value))

ParseUserCommand(user_command) ==
    IF user_command.command \notin DOMAIN user_commands
    THEN Raise(Error("KeyError", None, <<user_command.command>>))
    ELSE LET cmd_def == user_commands[user_command.command]
         IN  IF IsLeaf(cmd_def)
             THEN LET cmd_args == get_command_args(
                          DefArgs(cmd_def), user_command.args,
                          cmd_def.device, cmd_def.command)
                  IN  IF cmd_args.kind = "raise"
                      THEN cmd_args
                      ELSE Return(<<DeviceCommand(cmd_def.device,
                                                  cmd_def.command,
                                                  cmd_args.value)>>)
             ELSE ParseCommandList(user_command, 1, << >>)

----------------------------------------------------------------------------
(* The parser applied to user commands *)

\* values a user may give for an argument
UserValues(a) ==
    CASE a = "lower_limit" -> {Str("0"), Str("abc")}
      [] a = "upper_limit" -> {Str("10"), Str("abc")}
      [] a \in {"interval", "period"} -> {Str("5"), Str("soon")}
      [] a \in {"num_executions", "count"} -> {Str("2"), Str("-1")}
      [] a \in {"run_num", "run"} -> {Str("7"), Str("last")}
      [] a = "device" -> {Str("fee_temperature")}
      [] a = "variable" -> {Str("temperature")}
      [] a = "name" -> {Str("a1")}
      [] OTHER -> {Str("x")}

\* the argument dicts over a set of names
ArgDicts(names) ==
    UNION {{f \in [S -> UNION {UserValues(a) : a \in S}] :
               \A a \in S : f[a] \in UserValues(a)} : S \in SUBSET names}

\* user commands: every command of the table with any subset of its
\* declared names and one undeclared name, and a name outside the table
UserCommandInputs ==
    {UserCommand("foo/bar", EmptyDict)} \cup
    UNION {{UserCommand(c, f) :
               f \in ArgDicts((DOMAIN DefArgs(user_commands[c]))
                              \cup {"bogus"})} :
           c \in DOMAIN user_commands}

InitParse ==
    /\ managers = <<[key |-> Str("_run_manager"), val |-> RunManager]>>
    /\ previousRun = 0
    /\ mgr_in = None
    /\ mgr_out = NoCall
    /\ mgr_seq = 0
    /\ parse_in = None
    /\ parse_out = NoCall
    /\ exec_in = None
    /\ exec_out = NoCall
    /\ exec_seq = 0
    /\ InitServerVars

ParseCall ==
    \E uc \in UserCommandInputs :
        /\ parse_in' = uc
        /\ parse_out' = ParseUserCommand(uc)
        /\ UNCHANGED <<managers, previousRun, mgr_in, mgr_out, mgr_seq,
                       execVars, serverVars, transportVars,
                   sideVars>>

NextParse == ParseCall

SpecParse == InitParse /\ [][NextParse]_vars

----------------------------------------------------------------------------
(* Run manager fed arbitrary updates *)

RunDevices == {"server", "target", "fan"}
RunVariables ==
    {"define_run", "initialize_run", "initialize_data_run",
     "initialize_rate_scan", "start_run", "end_run", "clear_run",
     "read_rate", "trigger_rate", "alert_set"}
RunUpdates ==
    {Update(Str(d), v, Str(""), vals) :
        d \in RunDevices, v \in RunVariables,
        vals \in {<< >>, << <<"", Float(5)>> >>,
                  << <<"thresh", Float(60)>>, <<"rate", Float(5)>> >>,
                  << <<"thresh", Float(20)>>, <<"rate", Float(7)>> >>}}

TheRunManager == OGet(managers, Str("_run_manager"))

InitRun ==
    /\ managers = <<[key |-> Str("_run_manager"), val |-> RunManager]>>
    /\ previousRun = 0
    /\ mgr_in = None
    /\ mgr_out = NoCall
    /\ mgr_seq = 0
    /\ parse_in = None
    /\ parse_out = NoCall
    /\ exec_in = None
    /\ exec_out = NoCall
    /\ exec_seq = 0
    /\ InitServerVars

RunFeed ==
    \E u \in RunUpdates :
        LET r == RunProcessUpdate(TheRunManager, u, previousRun)
        IN  /\ r.prev <= MaxRunId
            /\ managers' = OSet(managers, Str("_run_manager"), r.mgr)
            /\ previousRun' = r.prev
            /\ mgr_in' = u
            /\ mgr_out' = r.out
            /\ mgr_seq' = 1 - mgr_seq
            /\ UNCHANGED <<parse_in, parse_out, execVars, serverVars,
                           transportVars,
                   sideVars>>

NextRun == RunFeed

SpecRun == InitRun /\ [][NextRun]_vars

----------------------------------------------------------------------------
(* DeviceController.write_update and write_multiple_update *)

\* Update.__init__: unit if unit is not None else ''
UnitOf(unit) == IF unit = None THEN Str("") ELSE unit

\* write_update(variable, value, unit): one value with the id ''
write_update(device, variable, value, unit) ==
    Update(device, variable, UnitOf(unit),
           IF value = None THEN << >> ELSE << <<"", value>> >>)

\* write_multiple_update(variable, values, unit): values is a dict, given
\* here as the list of its (value_id, value) items
write_multiple_update(device, variable, values, unit) ==
    Update(device, variable, UnitOf(unit), values)

----------------------------------------------------------------------------
(* Mock device controllers (controllers/mock) *)

\* config['mock']['module_ids'] of the FEE temperature controller
module_ids == <<"1", "2">>

\* what the random sources of the mock devices return during one step of
\* the server: a temperature for each module and the shutter's open sensor
Signals ==
    [temperature : [1..Len(module_ids) -> {5, 15}], open_sensor : {0, 1}]

\* int(value)
PyIntOf(value) ==
    CASE value.t \in {"float", "int"} -> Return(PyInt(value.n))
      [] value.t = "str" ->
           IF value.s \in NumericText
           THEN Return(PyInt(NumberOf(value.s)))
           ELSE Raise(Error("ValueError", None,
                            <<"invalid literal for int()">>))
      [] value.t = "message" ->
           Raise(Error("ValueError", None, <<"invalid literal for int()">>))
      [] OTHER -> Raise(Error("TypeError", None,
                              <<"int() argument must be a string",
                                "or a number">>))

\* bool(value)
PyBoolOf(value) ==
    CASE value.t = "None" -> FALSE
      [] value.t = "str" -> value.s # ""
      [] value.t = "bool" -> value.b
      [] value.t = "message" -> TRUE
      [] OTHER -> value.n # 0

\* mock ShutterController.execute_command
ShutterExecuteCommand(command, sig) ==
    IF command.command = "read_open_sensor"
    THEN Return(write_update(Str("shutter"), "open_sensor",
                             PyInt(sig.open_sensor), None))
    ELSE Return(None)

\* mock FEETemperatureController.execute_command
FEETemperatureExecuteCommand(command, sig) ==
    LET device == Str("fee_temperature")
        cmd == command.command
    IN  IF cmd = "get_last_run_num"
        THEN Return(write_update(device, "last_run_num", PyInt(1), None))
        ELSE IF cmd = "read_temperature"
        THEN LET run_num == IF "run_num" \in DOMAIN command.args
                            THEN command.args.run_num ELSE None
                 converted == IF run_num = None THEN Return(None)
                              ELSE PyIntOf(run_num)
             IN  IF converted.kind = "raise"
                 THEN IF converted.error.cls = "ValueError"
                      THEN Raise(Error("CommandArgumentError", device,
                                       <<cmd, "run_num",
                                         "invalid run number">>))
                      ELSE converted
                 ELSE Return(write_multiple_update(
                          device, "temperature",
                          [i \in 1..Len(module_ids) |->
                              <<module_ids[i], Float(sig.temperature[i])>>],
                          Str("C")))
        ELSE Raise(Error("CommandNameError", device,
                         <<cmd, "invalid command name">>))

----------------------------------------------------------------------------
(* ServerController.execute_command: the server as a device *)

\* The state the server's methods work on is passed along as the record
\* sv = [updates, managers, timers, heap, dispatched].

ArgMissing(args, arg) == arg \notin DOMAIN args
ArgNone(args, arg) == arg \in DOMAIN args /\ args[arg] = None

ServerArgumentError(cmd, arg, message) ==
    Raise(Error("CommandArgumentError", Str("server"), <<cmd, arg, message>>))

\* the first argument of the list that is not given, "" if all are
RECURSIVE FirstMissing(_, _, _)
FirstMissing(args, names, i) ==
    IF i > Len(names) THEN ""
    ELSE IF ArgMissing(args, names[i])
         THEN names[i]
         ELSE FirstMissing(args, names, i + 1)

\* the first argument of the list that is missing or None, "" if none is
RECURSIVE FirstAbsent(_, _, _)

\* the same, taking an argument given as None for present
FirstAbsentMissingOnly(args, names, i) == FirstMissing(args, names, i)

FirstAbsent(args, names, i) ==
    IF i > Len(names) THEN ""
    ELSE IF ArgMissing(args, names[i]) \/ ArgNone(args, names[i])
         THEN names[i]
         ELSE FirstAbsent(args, names, i + 1)

\* cmd == 'set_alert'
SetAlert(sv, command) ==
    LET cmd == command.command
        all_args == <<"name", "device", "variable", "lower_limit",
                      "upper_limit">>
        absent == FirstAbsent(command.args, all_args, 1)
        invalid_args == (DOMAIN command.args)
                            \ {all_args[i] : i \in 1..Len(all_args)}
        \* after the two loops arg still holds the last name of all_args
        arg == all_args[Len(all_args)]
        converted == IF arg \in {"lower_limit", "upper_limit"}
                     THEN PyFloat(command.args[arg])
                     ELSE Return(None)
    IN  IF absent # ""
        THEN [sv |-> sv,
              out |-> ServerArgumentError(cmd, absent,
                         IF ArgMissing(command.args, absent)
                         THEN "missing argument"
                         ELSE "unspecified argument")]
        ELSE IF invalid_args # {}
        THEN [sv |-> sv,
              out |-> ServerArgumentError(cmd,
                         CHOOSE a \in invalid_args : TRUE,
                         "invalid argument")]
        ELSE IF converted.kind = "raise"
        THEN [sv |-> sv,
              out |-> IF converted.error.cls = "ValueError"
                      THEN ServerArgumentError(cmd, arg,
                                               "argument must be float")
                      ELSE converted]
        ELSE LET args == IF arg \in {"lower_limit", "upper_limit"}
                         THEN [command.args EXCEPT ![arg] = converted.value]
                         ELSE command.args
             IN  [sv |-> [sv EXCEPT !.managers =
                            OSet(sv.managers, args.name,
                                 AlertManager(args.name, args.device,
                                              args.variable,
                                              args.lower_limit,
                                              args.upper_limit))],
                  out |-> Return(write_update(Str("server"), "alert_set",
                                              args.name, None))]

\* cmd in ['unset_alert']
UnsetAlert(sv, command) ==
    LET cmd == command.command
    IN  IF ArgMissing(command.args, "name")
        THEN [sv |-> sv,
              out |-> ServerArgumentError(cmd, "name", "missing argument")]
        ELSE IF command.args.name = None
        THEN [sv |-> sv,
              out |-> ServerArgumentError(cmd, "name",
                                          "unspecified argument")]
        ELSE IF ~OHas(sv.managers, command.args.name)
        THEN [sv |-> sv,
              out |-> Raise(Error("CommandExecutionError", Str("server"),
                                  <<cmd, "no manager named",
                                    command.args.name>>))]
        ELSE [sv |-> [sv EXCEPT !.managers =
                         ODel(sv.managers, command.args.name)],
              out |-> Return(write_update(Str("server"), "manager_unset",
                                          command.args.name, None))]

\* cmd == 'issue_alert'
IssueAlert(sv, command) ==
    LET cmd == command.command
        update_args == <<"name", "value", "value_id", "lower_limit",
                         "upper_limit">>
        absent == FirstAbsent(command.args, update_args \o <<"unit">>, 1)
    IN  IF absent # ""
        THEN [sv |-> sv,
              out |-> ServerArgumentError(cmd, absent,
                         IF ArgMissing(command.args, absent)
                         THEN "missing argument"
                         ELSE "unspecified argument")]
        ELSE [sv |-> sv,
              out |-> Return(write_multiple_update(
                         Str("server"), "alert",
                         [i \in 1..Len(update_args) |->
                             <<update_args[i],
                               command.args[update_args[i]]>>],
                         command.args.unit))]

\* cmd == 'clear_alert'
ClearAlert(sv, command) ==
    LET cmd == command.command
        absent == FirstAbsent(command.args, <<"name">>, 1)
    IN  IF absent # ""
        THEN [sv |-> sv,
              out |-> ServerArgumentError(cmd, absent,
                         IF ArgMissing(command.args, absent)
                         THEN "missing argument"
                         ELSE "unspecified argument")]
        ELSE [sv |-> sv,
              out |-> Return(write_update(Str("server"), "alert_clear",
                                          command.args.name, None))]

\* cmd == 'write_update': after the argument checks the code reads
\* cmd.args, and cmd is the command's name, a str
WriteUpdateCommand(sv, command) ==
    LET cmd == command.command
        absent == FirstAbsent(command.args, <<"variable", "value">>, 1)
    IN  IF absent # ""
        THEN [sv |-> sv,
              out |-> ServerArgumentError(cmd, absent, "missing argument")]
        ELSE [sv |-> sv,
              out |-> Raise(Error("AttributeError", None,
                            <<"'str' object has no attribute 'args'">>))]

\* the key a dict gets from an argument value
KeyOf(value) == IF value.t = "str" THEN value.s ELSE "<None>"

\* cmd == 'modify_repeating_command': timer[arg] = value on the timer dict
ModifyRepeatingCommand(sv, command) ==
    LET cmd == command.command
        args == command.args
        missing == FirstMissing(args, <<"name", "arg", "value">>, 1)
    IN  IF missing # ""
        THEN [sv |-> sv,
              out |-> ServerArgumentError(cmd, missing, "missing argument")]
        ELSE IF ~OHas(sv.timers, args.name)
        THEN [sv |-> sv,
              out |-> ServerArgumentError(cmd, "name",
                                          "no repeating command")]
        ELSE LET id == OGet(sv.timers, args.name)
                 timer == sv.heap[id].timer
                 key == KeyOf(args.arg)
             IN  [sv |-> [sv EXCEPT !.heap[id].timer =
                            [k \in (DOMAIN timer) \cup {key} |->
                                IF k = key THEN args.value ELSE timer[k]]],
                  out |-> Return(None)]

\* cmd == 'stop_repeating_command'
StopRepeatingCommand(sv, command) ==
    LET cmd == command.command
        args == command.args
        missing == FirstMissing(args, <<"name", "no_command_is_error">>, 1)
    IN  IF missing # ""
        THEN [sv |-> sv,
              out |-> ServerArgumentError(cmd, missing, "missing argument")]
        ELSE IF OHas(sv.timers, args.name)
        THEN [sv |-> [sv EXCEPT !.timers = ODel(sv.timers, args.name)],
              out |-> Return(None)]
        ELSE IF PyBoolOf(args.no_command_is_error)
        THEN [sv |-> sv,
              out |-> ServerArgumentError(cmd, "no_command_is_error",
                                          "no repeating command")]
        ELSE [sv |-> sv, out |-> Return(None)]

ServerExecuteCommand(sv, command) ==
    CASE command.command = "write_update" -> WriteUpdateCommand(sv, command)
      [] command.command = "set_alert" -> SetAlert(sv, command)
      [] command.command = "unset_alert" -> UnsetAlert(sv, command)
      [] command.command = "issue_alert" -> IssueAlert(sv, command)
      [] command.command = "clear_alert" -> ClearAlert(sv, command)
      [] command.command = "modify_repeating_command" ->
           ModifyRepeatingCommand(sv, command)
      [] command.command = "stop_repeating_command" ->
           StopRepeatingCommand(sv, command)
      [] OTHER -> [sv |-> sv,
                   out |-> Raise(Error("CommandNameError", Str("server"),
                                 <<command.command,
                                   "invalid command name">>))]

----------------------------------------------------------------------------
(* ServerController._execute_device_command_list *)

\* self._device_controllers
device_controllers == {Str("server"), Str("shutter"), Str("fee_temperature")}

\* device_controller.execute_command(dc)
ControllerExecuteCommand(sv, dc, sig) ==
    CASE dc.device = Str("server") -> ServerExecuteCommand(sv, dc)
      [] dc.device = Str("shutter") ->
           [sv |-> sv, out |-> ShutterExecuteCommand(dc, sig)]
      [] OTHER ->
           [sv |-> sv, out |-> FEETemperatureExecuteCommand(dc, sig)]

\* the last branch of the loop: look the controller up, execute, and
\* append the update if there is one
\* the update put in front of the pending list
Prepended(pending_list, device_update) == <<device_update>> \o pending_list

\* self._updates.append(device_update)
Appended(pending_list, device_update) == Append(pending_list, device_update)

Dispatch(sv, dc, sig) ==
    IF dc.device \notin device_controllers
    THEN [sv |-> sv,
          out |-> Raise(Error("DeviceNameError", dc.device,
                              <<"invalid device">>))]
    ELSE LET r == ControllerExecuteCommand(
                      [sv EXCEPT !.dispatched = Append(@, dc)], dc, sig)
         IN  IF r.out.kind = "raise"
             THEN r
             ELSE [sv |-> IF r.out.value = None
                          THEN r.sv
                          ELSE [r.sv EXCEPT !.updates =
                                   Appended(@, r.out.value)],
                   out |-> Return(None)]

\* the checks of an outermost enter_repeat_mode: Return(RepeatParams) or
\* the exception raised
RepeatParams(dc) ==
    LET args == dc.args
        cmd == dc.command
        interval == IF "interval" \in DOMAIN args /\ args.interval # None
                    THEN PyFloat(args.interval)
                    ELSE Raise(Error("KeyError", None, <<"interval">>))
        num_executions ==
            PyIntOf(IF "num_executions" \in DOMAIN args
                    THEN args.num_executions ELSE None)
        execute_immediately ==
            PyBoolOf(IF "execute_immediately" \in DOMAIN args
                     THEN args.execute_immediately ELSE None)
    IN  IF "name" \notin DOMAIN args
        THEN ServerArgumentError(cmd, "name", "missing argument")
        ELSE IF interval.kind = "raise"
        THEN CASE interval.error.cls = "KeyError" ->
                    ServerArgumentError(cmd, "interval", "missing argument")
               [] interval.error.cls = "ValueError" ->
                    ServerArgumentError(cmd, "interval", "must be float")
               [] OTHER -> interval
        ELSE IF num_executions.kind = "raise"
        THEN IF num_executions.error.cls = "ValueError"
             THEN ServerArgumentError(cmd, "num_executions",
                                      "must be integer")
             ELSE num_executions
        ELSE IF num_executions.value.n < 0
        THEN ServerArgumentError(cmd, "num_executions", "must be >= 0")
        ELSE Return([name |-> args.name,
                     interval |-> interval.value,
                     num_executions |-> IF num_executions.value.n = 0
                                        THEN None
                                        ELSE num_executions.value,
                     execute_immediately |-> PyBool(execute_immediately)])

\* a timer dict without the buffered commands
NewTimerWithoutCommands(repeat_params, repeat_cmds) ==
    [interval |-> repeat_params.interval,
     num_executions |-> repeat_params.num_executions,
     execute_immediately |-> repeat_params.execute_immediately,
     command_list |-> << >>,
     passed |-> repeat_params.execute_immediately]

\* the timer dict built at the outermost exit_repeat_mode
NewTimer(repeat_params, repeat_cmds) ==
    [interval |-> repeat_params.interval,
     num_executions |-> repeat_params.num_executions,
     execute_immediately |-> repeat_params.execute_immediately,
     command_list |-> repeat_cmds,
     passed |-> repeat_params.execute_immediately]

\* the timer dict with the threading.Timer started for it (armed), and for
\* the record: the count it was registered with, for a timer registered
\* with a count the number of times its command list has been executed,
\* and whether the last _execute_timed_commands executed it
NewEntry(timer) ==
    [timer |-> timer, armed |-> TRUE,
     registered_count |-> timer.num_executions, runs |-> 0, ran |-> FALSE]

IsMarker(dc, command) == dc.device = None /\ dc.command = command

RECURSIVE ExecuteLoop(_, _, _, _, _)

\* the loop of _execute_device_command_list from position i; lc holds the
\* locals repeat_depth, repeat_cmds and repeat_params.  The result is the
\* server state and None, or the exception raised.
ExecuteLoop(sv, device_command_list, i, lc, sig) ==
    IF i > Len(device_command_list)
    THEN [sv |-> sv, err |-> None]
    ELSE
    LET dc == device_command_list[i]
    IN  IF IsMarker(dc, "enter_repeat_mode")
        THEN IF lc.repeat_depth = 0
             THEN LET params == RepeatParams(dc)
                  IN  IF params.kind = "raise"
                      THEN [sv |-> sv, err |-> params.error]
                      ELSE ExecuteLoop(sv, device_command_list, i + 1,
                               [lc EXCEPT !.repeat_params = params.value,
                                          !.repeat_depth = @ + 1], sig)
             ELSE ExecuteLoop(sv, device_command_list, i + 1,
                      [lc EXCEPT !.repeat_cmds = Append(@, dc),
                                 !.repeat_depth = @ + 1], sig)
        ELSE IF IsMarker(dc, "exit_repeat_mode")
        THEN IF lc.repeat_depth - 1 = 0
             THEN \* register the timer and start its threading.Timer
                  LET timer == NewTimer(lc.repeat_params, lc.repeat_cmds)
                      id == Len(sv.heap) + 1
                  IN  ExecuteLoop(
                          [sv EXCEPT
                             !.heap = Append(@, NewEntry(timer)),
                             !.timers = OSet(@, lc.repeat_params.name, id)],
                          device_command_list, i + 1,
                          [lc EXCEPT !.repeat_cmds = << >>,
                                     !.repeat_depth = 0], sig)
             ELSE ExecuteLoop(sv, device_command_list, i + 1,
                      [lc EXCEPT !.repeat_cmds = Append(@, dc),
                                 !.repeat_depth = @ - 1], sig)
        ELSE IF lc.repeat_depth > 0
        THEN ExecuteLoop(sv, device_command_list, i + 1,
                 [lc EXCEPT !.repeat_cmds = Append(@, dc)], sig)
        ELSE LET r == Dispatch(sv, dc, sig)
             IN  IF r.out.kind = "raise"
                 THEN [sv |-> r.sv, err |-> r.out.error]
                 ELSE ExecuteLoop(r.sv, device_command_list, i + 1, lc, sig)

ExecuteDeviceCommandList(sv, device_command_list, sig) ==
    ExecuteLoop(sv, device_command_list, 1,
                [repeat_depth |-> 0, repeat_cmds |-> << >>,
                 repeat_params |-> None], sig)

\* _execute_user_command
ExecuteUserCommand(sv, command, sig) ==
    IF command = None
    THEN [sv |-> sv, err |-> None]
    ELSE LET device_command_list == ParseUserCommand(command)
         IN  IF device_command_list.kind = "raise"
             THEN [sv |-> sv, err |-> device_command_list.error]
             ELSE ExecuteDeviceCommandList(sv, device_command_list.value,
                                           sig)

----------------------------------------------------------------------------
(* ServerController._execute_timed_commands *)

RuntimeError ==
    Error("RuntimeError", None, <<"dictionary changed size during iteration">>)

\* value <= n and value > n for an int n, which Python refuses for a str
PyCompareInt(value) == value.t \in {"int", "float", "bool"}

\* the count of a timer left as it is by an execution
NotDecremented(num_executions) == num_executions

\* if timer['num_executions'] is not None: timer['num_executions'] -= 1
Decremented(num_executions) ==
    IF num_executions = None
    THEN None
    ELSE [num_executions EXCEPT !.n = @ - 1]

RECURSIVE TimedLoop(_, _, _, _)

\* the loop over self._timers.values() from position j; size is the size
\* of the dict when the loop began
TimedLoop(sv, j, size, sig) ==
    IF Len(sv.timers) # size
    THEN [sv |-> sv, err |-> RuntimeError]
    ELSE IF j > Len(sv.timers)
    THEN [sv |-> sv, err |-> None]
    ELSE
    LET id == sv.timers[j].val
        timer == sv.heap[id].timer
        num_executions == timer.num_executions
    IN  IF num_executions # None /\ ~PyCompareInt(num_executions)
        THEN [sv |-> sv,
              err |-> Error("TypeError", None,
                            <<"'<=' not supported between instances">>)]
        ELSE IF num_executions # None /\ num_executions.n <= 0
        THEN TimedLoop(sv, j + 1, size, sig)
        ELSE IF ~PyBoolOf(timer.passed)
        THEN TimedLoop(sv, j + 1, size, sig)
        ELSE LET decremented == Decremented(num_executions)
                 sv2 == [sv EXCEPT
                           !.heap[id].timer.passed = PyBool(FALSE),
                           !.heap[id].timer.num_executions = decremented,
                           !.heap[id].ran = TRUE,
                           !.heap[id].runs =
                               IF sv.heap[id].registered_count = None
                               THEN @ ELSE @ + 1]
                 r == ExecuteDeviceCommandList(sv2, timer.command_list, sig)
             IN  IF r.err # None
                 THEN r
                 ELSE TimedLoop(r.sv, j + 1, size, sig)

ExecuteTimedCommands(sv, sig) ==
    TimedLoop([sv EXCEPT !.heap = [id \in 1..Len(sv.heap) |->
                                      [sv.heap[id] EXCEPT !.ran = FALSE]]],
              1, Len(sv.timers), sig)

----------------------------------------------------------------------------
(* The manager loop of run_server *)

\* manager.process_update(update)
ProcessUpdate(manager, update, prev) ==
    IF manager.cls = "RunManager"
    THEN RunProcessUpdate(manager, update, prev)
    ELSE LET r == AlertProcessUpdate(manager, update)
         IN  [mgr |-> r.mgr, out |-> r.out, prev |-> prev]

RECURSIVE ManagersLoop(_, _, _, _, _)

\* for manager in self._managers.values(): for update in self._updates,
\* from manager j and update k; the inner loop sees the updates appended
\* while it runs
ManagersLoop(sv, j, k, size, sig) ==
    IF k = 1 /\ Len(sv.managers) # size
    THEN [sv |-> sv, err |-> RuntimeError]
    ELSE IF j > Len(sv.managers)
    THEN [sv |-> sv, err |-> None]
    ELSE IF k > Len(sv.updates)
    THEN ManagersLoop(sv, j + 1, 1, size, sig)
    ELSE
    LET r == ProcessUpdate(sv.managers[j].val, sv.updates[k], sv.previousRun)
        sv2 == [sv EXCEPT !.managers[j].val = r.mgr,
                          !.previousRun = r.prev,
                          !.inspected =
                              Append(@, [manager |-> sv.managers[j].key,
                                         position |-> k])]
    IN  IF r.out.kind = "raise"
        THEN [sv |-> sv2, err |-> r.out.error]
        ELSE LET x == ExecuteUserCommand(sv2, r.out.value, sig)
             IN  IF x.err # None
                 THEN x
                 ELSE ManagersLoop(x.sv, j, k + 1, size, sig)

InspectUpdates(sv, sig) == ManagersLoop(sv, 1, 1, Len(sv.managers), sig)

----------------------------------------------------------------------------
(* ServerController.run_server *)

MaxTimers == 2

\* user commands received by the server
ServerCommandInputs ==
    {UserCommand("foo/bar", EmptyDict),
     UserCommand("read_open_sensor", EmptyDict),
     UserCommand("read_open_sensor", [bogus |-> Str("x")]),
     UserCommand("read_temperature", EmptyDict),
     UserCommand("read_temperature", [run_num |-> Str("last")]),
     UserCommand("heater_on", EmptyDict),
     UserCommand("unset_alert", [name |-> Str("a1")]),
     UserCommand("monitor_temperature", [name |-> Str("a1")]),
     UserCommand("monitor_temperature",
                 [name |-> Str("a1"), period |-> Str("soon")]),
     UserCommand("monitor_temperature",
                 [name |-> Str("a1"), run |-> Str("last")]),
     UserCommand("check_camera", EmptyDict)}
    \cup
    {UserCommand("set_alert",
                 [name |-> Str("a1"), device |-> Str("fee_temperature"),
                  variable |-> Str("temperature"),
                  lower_limit |-> lo, upper_limit |-> hi]) :
        lo \in UserValues("lower_limit"), hi \in UserValues("upper_limit")}
    \cup
    {UserCommand("set_alert",
                 [name |-> Str("a1"), device |-> Str("fee_temperature"),
                  variable |-> Str("temperature"),
                  lower_limit |-> Str("0")])}

\* the state the methods work on, and its write-back
ServerState ==
    [updates |-> updates, managers |-> managers, timers |-> timers,
     heap |-> timer_heap, dispatched |-> dispatched,
     previousRun |-> previousRun, inspected |-> inspected]

\* the timer dicts still referenced, by self._timers or by the closure
\* of a pending threading.Timer; the others are reclaimed
Referenced(ts, heap) ==
    {id \in 1..Len(heap) :
        heap[id].armed \/ \E j \in 1..Len(ts) : ts[j].val = id}

\* a timer dict that has been reclaimed
Reclaimed == [timer |-> None, armed |-> FALSE, registered_count |-> None,
              runs |-> 0, ran |-> FALSE]

CollectHeap(ts, heap) ==
    [id \in 1..Len(heap) |->
        IF id \in Referenced(ts, heap) THEN heap[id] ELSE Reclaimed]

Store(sv) ==
    /\ managers' = sv.managers
    /\ timers' = sv.timers
    /\ timer_heap' = CollectHeap(sv.timers, sv.heap)
    /\ dispatched' = sv.dispatched
    /\ inspected' = sv.inspected
    /\ previousRun' = sv.previousRun

WithinBounds(sv) ==
    /\ Len(sv.heap) <= MaxTimers
    /\ sv.previousRun <= MaxRunId

\* except CameraControlError as err, for the argument errors only
CaughtArgumentErrorsOnly(err) == err.cls = "CommandArgumentError"

\* except CameraControlError as err
Caught(err) == IsControlError(err)

\* update = Update(err.device, 'ERROR'); update.add_value(err.message)
ErrorUpdate(err) ==
    Update(err.device, "ERROR", Str(""),
           << <<"", [t |-> "message", text |-> err.message]>> >>)

\* the end of a step of the loop body: on to the next step, or into the
\* except clause and back to the top of the loop, or out of run_server
Finish(r, step, next) ==
    /\ WithinBounds(r.sv)
    /\ Store(r.sv)
    /\ IF r.err = None
       THEN /\ updates' = r.sv.updates
            /\ pc' = next
            /\ UNCHANGED <<tick_error, error_step>>
       ELSE /\ tick_error' = r.err
            /\ error_step' = step
            /\ IF Caught(r.err)
               THEN /\ updates' = Append(r.sv.updates, ErrorUpdate(r.err))
                    /\ pc' = "communicate"
               ELSE /\ updates' = r.sv.updates
                    /\ pc' = "crashed"
    /\ UNCHANGED <<received, callVars, transportVars,
                   sideVars>>

\* user_command = communicate_user(self._updates); self._updates = []
\* where communicate_user returned c
Received(c) ==
    /\ received' = c
    /\ updates' = << >>
    /\ dispatched' = << >>
    /\ inspected' = << >>
    /\ tick_error' = None
    /\ error_step' = "none"
    /\ pc' = "execute"
    /\ UNCHANGED <<managers, previousRun, timers, timer_heap, callVars,
                   transportVars,
                   sideVars>>

Communicate ==
    /\ pc = "communicate"
    /\ \E c \in ServerCommandInputs \cup {None} : Received(c)

\* self._execute_user_command(user_command)
ExecuteStep ==
    /\ pc = "execute"
    /\ \E sig \in Signals :
          Finish(ExecuteUserCommand(ServerState, received, sig),
                 "execute", "timed")

\* self._execute_timed_commands()
TimedStep ==
    /\ pc = "timed"
    /\ \E sig \in Signals :
          Finish(ExecuteTimedCommands(ServerState, sig), "timed", "managers")

\* the manager loop
ManagersStep ==
    /\ pc = "managers"
    /\ \E sig \in Signals :
          Finish(InspectUpdates(ServerState, sig), "managers", "communicate")

\* a start_timer that uses up the count of the timer as well
start_timer_counting(heap, id) ==
    LET num_executions == heap[id].timer.num_executions
        rearmed == /\ \/ num_executions = None
                      \/ /\ PyCompareInt(num_executions)
                         /\ num_executions.n > 1
                   /\ heap[id].timer.interval.t \in {"float", "int"}
    IN  [heap EXCEPT ![id].timer.passed = PyBool(TRUE),
                     ![id].timer.num_executions = PyInt(0),
                     ![id].armed = rearmed]

\* start_timer, the closure timer_fn returns for the timer dict id:
\* timer['passed'] = True, then a new threading.Timer is started when the
\* count read from the dict is None or above 1
start_timer(heap, id) ==
    LET num_executions == heap[id].timer.num_executions
        \* threading.Timer(timer['interval'], start_timer).start(): the
        \* new thread waits for the interval, which takes a number
        rearmed == /\ \/ num_executions = None
                      \/ /\ PyCompareInt(num_executions)
                         /\ num_executions.n > 1
                   /\ heap[id].timer.interval.t \in {"float", "int"}
    IN  [heap EXCEPT ![id].timer.passed = PyBool(TRUE),
                     ![id].armed = rearmed]

\* start_timer, run by the threading.Timer armed for the timer dict id
TimerFire ==
    \E id \in 1..Len(timer_heap) :
        /\ timer_heap[id].armed
        /\ timer_heap' = CollectHeap(timers, start_timer(timer_heap, id))
        /\ UNCHANGED <<managers, previousRun, callVars, updates, pc,
                       timers, received, dispatched, tick_error,
                       error_step, inspected, transportVars, sideVars>>

Init ==
    /\ managers = <<[key |-> Str("_run_manager"), val |-> RunManager]>>
    /\ previousRun = 0
    /\ mgr_in = None
    /\ mgr_out = NoCall
    /\ mgr_seq = 0
    /\ parse_in = None
    /\ parse_out = NoCall
    /\ exec_in = None
    /\ exec_out = NoCall
    /\ exec_seq = 0
    /\ InitServerVars

Next ==
    \/ Communicate
    \/ ExecuteStep
    \/ TimedStep
    \/ ManagersStep
    \/ TimerFire

Spec == Init /\ [][Next]_vars

----------------------------------------------------------------------------
(* run_server receiving the commands that work on repeat timers *)

\* user commands that register, modify and stop repeat timers
TimerCommandInputs ==
    {UserCommand("monitor_temperature", [name |-> Str("a1")]),
     UserCommand("monitor_temperature",
                 [name |-> Str("t2"), count |-> Str("2")]),
     UserCommand("stop_repeating_command", [name |-> Str("a1")]),
     UserCommand("stop_repeating_command", [name |-> Str("t2")]),
     UserCommand("modify_repeating_command",
                 [name |-> Str("a1"), arg |-> Str("interval"),
                  value |-> Str("9")]),
     UserCommand("modify_repeating_command",
                 [name |-> Str("t2"), arg |-> Str("num_executions"),
                  value |-> Str("5")])}

CommunicateTimers ==
    /\ pc = "communicate"
    /\ \E c \in TimerCommandInputs \cup {None} : Received(c)

NextTimers ==
    \/ CommunicateTimers
    \/ ExecuteStep
    \/ TimedStep
    \/ ManagersStep
    \/ TimerFire

SpecTimers == Init /\ [][NextTimers]_vars

----------------------------------------------------------------------------
(* run_server with alerts whose limits the command table gives as numbers *)

\* user commands that register alert managers, produce updates for them,
\* and raise a control error after an update was produced
LoopCommandInputs ==
    {UserCommand("set_temperature_alert", EmptyDict),
     UserCommand("set_sensor_alert", EmptyDict),
     UserCommand("read_temperature", EmptyDict),
     UserCommand("monitor_temperature", [name |-> Str("a1")]),
     UserCommand("monitor_temperature",
                 [name |-> Str("a1"), period |-> Str("soon")])}

CommunicateLoop ==
    /\ pc = "communicate"
    /\ \E c \in LoopCommandInputs \cup {None} : Received(c)

NextLoop ==
    \/ CommunicateLoop
    \/ ExecuteStep
    \/ TimedStep
    \/ ManagersStep
    \/ TimerFire

SpecLoop == Init /\ [][NextLoop]_vars

----------------------------------------------------------------------------
(* _execute_device_command_list applied to lists of device commands *)

MaxList == 6

\* the entries of a list: two markers opening a repeat block, with
\* arguments that pass the checks, the closing marker, and two commands
\* for the mock devices
ListEntries ==
    {DeviceCommand(None, "enter_repeat_mode",
                   [name |-> Str("a1"), interval |-> Str("2"),
                    num_executions |-> Str("0"),
                    execute_immediately |-> Str("")]),
     DeviceCommand(None, "enter_repeat_mode",
                   [name |-> Str("t2"), interval |-> Str("5"),
                    num_executions |-> Str("2"),
                    execute_immediately |-> Str("")]),
     DeviceCommand(None, "exit_repeat_mode", EmptyDict),
     DeviceCommand(Str("fee_temperature"), "read_temperature",
                   [run_num |-> None]),
     DeviceCommand(Str("shutter"), "read_open_sensor", EmptyDict)}

ListInputs == UNION {[1..n -> ListEntries] : n \in 0..MaxList}

\* what the mock devices report while a list is executed: every module at
\* the same temperature
ListSignals ==
    {sig \in Signals :
        \A m \in DOMAIN sig.temperature :
            sig.temperature[m] = sig.temperature[1]}

\* self._execute_device_command_list(device_command_list) on the server
\* as __init__ left it
ListCall ==
    /\ list_in = None
    /\ \E device_command_list \in ListInputs : \E sig \in ListSignals :
          LET r == ExecuteDeviceCommandList(ServerState,
                                            device_command_list, sig)
          IN  /\ list_in' = PyList(device_command_list)
              /\ timers' = r.sv.timers
              /\ timer_heap' = r.sv.heap
              /\ dispatched' = r.sv.dispatched
              /\ updates' = r.sv.updates
              /\ tick_error' = r.err
    /\ UNCHANGED <<managers, previousRun, callVars, pc, received,
                   error_step, inspected, transportVars, frameVars,
                   raceVars>>

NextList == ListCall

SpecList == Init /\ [][NextList]_vars

----------------------------------------------------------------------------
(* The server's own execute_command applied to device commands *)

\* values an argument of a parsed DeviceCommand may hold: what a user gave,
\* or (tried on two of the names) the None of a definition's default
ExecValues(a) ==
    IF a \in {"device", "upper_limit"}
    THEN UserValues(a) \cup {None}
    ELSE UserValues(a)

ExecArgDicts(names) ==
    UNION {{f \in [S -> UNION {ExecValues(a) : a \in S}] :
               \A a \in S : f[a] \in ExecValues(a)} : S \in SUBSET names}

\* set_alert with any subset of its five names and one other name, and
\* unset_alert; both also with the name the server keeps its RunManager
\* under
ExecCommandInputs ==
    {DeviceCommand(Str("server"), "set_alert", f) :
        f \in ExecArgDicts({"name", "device", "variable", "lower_limit",
                            "upper_limit", "extra"})}
    \cup
    {DeviceCommand(Str("server"), "set_alert",
                   [name |-> Str("_run_manager"),
                    device |-> Str("fee_temperature"),
                    variable |-> Str("temperature"),
                    lower_limit |-> Str("0"), upper_limit |-> Str("10")])}
    \cup
    {DeviceCommand(Str("server"), "unset_alert", f) :
        f \in ExecArgDicts({"name"})
                \cup {[name |-> None], [name |-> Str("_run_manager")]}}

InitExec ==
    /\ managers = <<[key |-> Str("_run_manager"), val |-> RunManager]>>
    /\ previousRun = 0
    /\ mgr_in = None
    /\ mgr_out = NoCall
    /\ mgr_seq = 0
    /\ parse_in = None
    /\ parse_out = NoCall
    /\ exec_in = None
    /\ exec_out = NoCall
    /\ exec_seq = 0
    /\ InitServerVars

\* device_controller.execute_command(dc) for the 'server' controller
ExecCall ==
    \E dc \in ExecCommandInputs :
        LET r == ServerExecuteCommand(ServerState, dc)
        IN  /\ exec_in' = dc
            /\ exec_out' = r.out
            /\ exec_seq' = 1 - exec_seq
            /\ managers' = r.sv.managers
            /\ timers' = r.sv.timers
            /\ timer_heap' = r.sv.heap
            /\ UNCHANGED <<previousRun, mgr_in, mgr_out, mgr_seq, parse_in,
                           parse_out, updates, pc, received, dispatched,
                           tick_error, error_step, inspected,
                           transportVars,
                   sideVars>>

NextExec == ExecCall

SpecExec == InitExec /\ [][NextExec]_vars

----------------------------------------------------------------------------
(* UserHandler: the transport exchange of a tick *)

MaxConns == 2
MaxMessages == 1
MaxUpdates == 1

\* keys of the selector: the two listening sockets, and the accepted
\* connections by their position in conns
InputPort == 0
OutputPort == 0 - 1

\* conn returned by sock.accept(), registered with _read or _write.  inbuf
\* holds what the peer's messages have delivered so far, oldest first:
\* "complete" (header and payload readable) or "header" (the payload not
\* arrived by the time the server reads); consumed counts the messages read from it; peer is the
\* peer's end: "open", "closed" (orderly shutdown) or "reset"; stalled
\* tells that the socket is not writable; got lists the serial numbers of
\* the updates sent on it
NewConn(kind) ==
    [kind |-> kind, registered |-> TRUE, inbuf |-> << >>, consumed |-> 0,
     peer |-> "open", stalled |-> FALSE, got |-> << >>]

\* the command carried by message number pos of connection c
MessageCommand(c, pos) ==
    UserCommand(IF (c + pos) % 2 = 0
                THEN "read_open_sensor" ELSE "read_temperature",
                EmptyDict)

\* the n-th update produced by the server
ProducedUpdate(n) ==
    Update(Str("server"), "alert_set", Str(""), << <<"", PyInt(n)>> >>)

SerialOf(update) == update.values[1][2].n

ConnectionErrorClasses ==
    {"ConnectionError", "BrokenPipeError", "ConnectionAbortedError",
     "ConnectionRefusedError", "ConnectionResetError"}

\* self._selector.unregister(conn); conn.close(): the socket is gone, and
\* with it what it held
Unregister(h, c) ==
    [h EXCEPT !.conns[c] =
        [NewConn(h.conns[c].kind) EXCEPT !.registered = FALSE,
                                         !.peer = "closed"]]

\* _accept_input and _accept_output
Accept(h, kind) ==
    [h EXCEPT !.conns = Append(@, NewConn(kind)),
              !.backlog[kind] = @ - 1]

\* self._user_command = UserCommand(...), keeping a command already read
AssignIfUnset(old, new) == IF old = None THEN new ELSE old

\* self._user_command = UserCommand(...)
Assign(old, new) == new

\* UserHandler._read(conn, mask)
Read(h, c) ==
    LET k == h.conns[c]
    IN  IF k.peer = "reset"
        THEN [h EXCEPT !.err = Error("ConnectionResetError", None,
                                     <<"connection reset by peer">>)]
        ELSE IF k.inbuf = << >>
        THEN \* recv returns b'' at end of stream
             Unregister(h, c)
        ELSE IF Head(k.inbuf) = "complete"
        THEN LET command == MessageCommand(c, k.consumed + 1)
             IN  [h EXCEPT !.conns[c].inbuf = Tail(@),
                           !.conns[c].consumed = @ + 1,
                           !.user_command = Assign(@, command),
                           !.read_log =
                               Append(@, [conn |-> c, pos |-> k.consumed + 1,
                                          command |-> command])]
        ELSE \* the header is read, conn.recv(int(header)) has nothing to
             \* return on the non-blocking socket
             [h EXCEPT !.conns[c].inbuf = <<"payload">> \o Tail(@),
                       !.err = Error("BlockingIOError", None,
                                     <<"resource temporarily unavailable">>)]

\* UserHandler._write(conn, mask)
Write(h, c) ==
    LET k == h.conns[c]
    IN  IF h.user_update = << >>
        THEN h
        ELSE IF k.peer = "reset"
        THEN [h EXCEPT !.err = Error("BrokenPipeError", None,
                                     <<"broken pipe">>)]
        ELSE [h EXCEPT !.conns[c].got =
                 @ \o [i \in 1..Len(h.user_update) |->
                          SerialOf(h.user_update[i])]]

\* callback(conn, mask)
Callback(h, key) ==
    CASE key = InputPort -> Accept(h, "input")
      [] key = OutputPort -> Accept(h, "output")
      [] OTHER -> IF h.conns[key].kind = "input"
                  THEN Read(h, key)
                  ELSE Write(h, key)

\* except ConnectionError
CaughtByHandler(err) == err.cls \in ConnectionErrorClasses

RECURSIVE SelectLoop(_, _, _)

\* for key, mask in self._selector.select(timeout=-1), from position i of
\* the list select returned
SelectLoop(h, keys, i) ==
    IF i > Len(keys)
    THEN h
    ELSE LET r == Callback(h, keys[i])
         IN  IF r.err = None
             THEN SelectLoop(r, keys, i + 1)
             ELSE IF CaughtByHandler(r.err)
             THEN SelectLoop([Unregister(r, keys[i]) EXCEPT !.err = None],
                             keys, i + 1)
             ELSE r

\* the keys select reports: a listening socket with a client waiting, an
\* input connection with something to read (data, end of stream or an
\* error), an output connection that is writable or in error
ReadyKeys ==
    {key \in {InputPort} : backlog.input > 0}
    \cup {key \in {OutputPort} : backlog.output > 0}
    \cup {c \in 1..Len(conns) :
            /\ conns[c].registered
            /\ IF conns[c].kind = "input"
               THEN conns[c].inbuf # << >> \/ conns[c].peer # "open"
               ELSE ~conns[c].stalled \/ conns[c].peer = "reset"}

\* the orders in which select may list a set of keys
Orders(S) ==
    {f \in [1..Cardinality(S) -> S] :
        \A i, j \in 1..Cardinality(S) : i # j => f[i] # f[j]}

\* UserHandler.communicate_user(updates)
CommunicateUser(us, keys) ==
    SelectLoop([conns |-> conns, backlog |-> backlog, user_update |-> us,
                user_command |-> None, read_log |-> << >>, err |-> None],
               keys, 1)

\* user_command = self._user_handler.communicate_user(self._updates);
\* self._updates = []
Exchange ==
    /\ pc = "communicate"
    /\ \E keys \in Orders(ReadyKeys) :
          LET h == CommunicateUser(updates, keys)
          IN  /\ conns' = h.conns
              /\ backlog' = h.backlog
              /\ read_log' = h.read_log
              /\ IF h.err = None
                 THEN /\ received' = h.user_command
                      /\ updates' = << >>
                      /\ pc' = "execute"
                      /\ tick_error' = None
                      /\ error_step' = "none"
                 ELSE /\ tick_error' = h.err
                      /\ error_step' = "communicate"
                      /\ pc' = "crashed"
                      /\ UNCHANGED <<received, updates>>
    /\ UNCHANGED <<managers, previousRun, callVars, sideVars, timers,
                   timer_heap, dispatched, inspected, serial>>

\* the rest of the loop body, for what it leaves in self._updates
Produce ==
    /\ pc = "execute"
    /\ \E n \in 0..(MaxUpdates - serial) :
          /\ updates' = [i \in 1..n |-> ProducedUpdate(serial + i)]
          /\ serial' = serial + n
    /\ pc' = "communicate"
    /\ received' = None
    /\ read_log' = << >>
    /\ UNCHANGED <<managers, previousRun, callVars, sideVars, timers,
                   timer_heap, dispatched, inspected, tick_error,
                   error_step, conns, backlog>>

\* a client connects to the input or the output port
ClientConnect ==
    /\ Len(conns) + backlog.input + backlog.output < MaxConns
    /\ \E kind \in {"input", "output"} :
          backlog' = [backlog EXCEPT ![kind] = @ + 1]
    /\ UNCHANGED <<managers, previousRun, callVars, serverVars, sideVars, conns,
                   serial, read_log>>

OpenConns(kind) ==
    {c \in 1..Len(conns) :
        conns[c].kind = kind /\ conns[c].registered
            /\ conns[c].peer = "open"}

\* a client's message reaches the server, whole or its header only
ClientSend ==
    \E c \in OpenConns("input") : \E form \in {"complete", "header"} :
        /\ conns[c].consumed + Len(conns[c].inbuf) < MaxMessages
        /\ \A i \in 1..Len(conns[c].inbuf) : conns[c].inbuf[i] = "complete"
        /\ conns' = [conns EXCEPT ![c].inbuf = Append(@, form)]
        /\ UNCHANGED <<managers, previousRun, callVars, serverVars, sideVars, backlog,
                       serial, read_log>>

\* a client closes its connection, or the connection is reset
PeerCloses ==
    \E c \in OpenConns("input") \cup OpenConns("output") :
        \E how \in {"closed", "reset"} :
            /\ conns[c].kind = "output" => how = "reset"
            /\ conns' = [conns EXCEPT ![c].peer = how]
            /\ UNCHANGED <<managers, previousRun, callVars, serverVars, sideVars,
                           backlog, serial, read_log>>

\* the send buffer of an output connection fills up, or drains
Stall ==
    \E c \in OpenConns("output") :
        /\ conns' = [conns EXCEPT ![c].stalled = ~@]
        /\ UNCHANGED <<managers, previousRun, callVars, serverVars, sideVars, backlog,
                       serial, read_log>>

InitTransport ==
    /\ managers = <<[key |-> Str("_run_manager"), val |-> RunManager]>>
    /\ previousRun = 0
    /\ mgr_in = None
    /\ mgr_out = NoCall
    /\ mgr_seq = 0
    /\ parse_in = None
    /\ parse_out = NoCall
    /\ exec_in = None
    /\ exec_out = NoCall
    /\ exec_seq = 0
    /\ InitServerVars

NextTransport ==
    \/ Exchange
    \/ Produce
    \/ ClientConnect
    \/ ClientSend
    \/ PeerCloses
    \/ Stall

SpecTransport == InitTransport /\ [][NextTransport]_vars

----------------------------------------------------------------------------
(* The framing of update batches: Update.fill_protobuf and               *)
(* UserHandler._write on the server, recv_updates on the client           *)

MaxHeader == 3
MaxBatch == 3

\* str(value)
PyStr(value) ==
    CASE value.t = "str" -> value.s
      [] value.t = "None" -> "None"
      [] value.t = "bool" -> IF value.b THEN "True" ELSE "False"
      [] value.t = "int" -> ToString(value.n)
      [] value.t = "float" -> ToString(value.n) \o ".0"
      [] OTHER -> "message"

\* an Update with the timestamp its constructor took, in microseconds
Stamped(update, timestamp) ==
    [device |-> update.device, variable |-> update.variable,
     unit |-> update.unit, timestamp |-> timestamp,
     values |-> update.values]

\* Timestamp.FromDatetime: whole seconds and the rest in nanoseconds
FromDatetime(timestamp) ==
    [seconds |-> timestamp \div 1000000,
     nanos |-> (timestamp % 1000000) * 1000]

\* Timestamp.ToMicroseconds
ToMicroseconds(timestamp_pb) ==
    timestamp_pb.seconds * 1000000 + timestamp_pb.nanos \div 1000

\* Update.fill_protobuf(update_pb): every field through str()
fill_protobuf(update) ==
    [device |-> PyStr(update.device),
     variable |-> update.variable,
     unit |-> PyStr(update.unit),
     timestamp |-> FromDatetime(update.timestamp),
     values |-> [i \in 1..Len(update.values) |->
                    [id |-> update.values[i][1],
                     value |-> PyStr(update.values[i][2])]]]

RECURSIVE VarintSize(_)

\* bytes of the base-128 encoding of a number
VarintSize(n) == IF n < 128 THEN 1 ELSE 1 + VarintSize(n \div 128)

\* bytes of a string field (proto3 leaves out an empty one): tag, length,
\* text
TextSize(text) == IF text = "" THEN 0 ELSE 1 + VarintSize(Len(text)) + Len(text)

\* bytes of a number field (proto3 leaves out a zero)
NumberSize(n) == IF n = 0 THEN 0 ELSE 1 + VarintSize(n)

\* bytes of an embedded message of the given size: tag, length, message
EmbeddedSize(size) == 1 + VarintSize(size) + size

RECURSIVE SumSizes(_, _)

SumSizes(values_pb, i) ==
    IF i > Len(values_pb)
    THEN 0
    ELSE EmbeddedSize(TextSize(values_pb[i].id)
                      + TextSize(values_pb[i].value))
         + SumSizes(values_pb, i + 1)

\* update_pb.ByteSize()
ByteSize(update_pb) ==
    TextSize(update_pb.device) + TextSize(update_pb.variable)
    + TextSize(update_pb.unit)
    + EmbeddedSize(NumberSize(update_pb.timestamp.seconds)
                   + NumberSize(update_pb.timestamp.nanos))
    + SumSizes(update_pb.values, 1)

\* the bytes on the wire: an ASCII digit, the tag of UserUpdate.updates,
\* the length of one embedded Update (below 128 here, one byte), and the
\* k-th byte of the encoding of an Update
Digit(d) == [b |-> "digit", d |-> d]
UpdatesTag == [b |-> "tag"]
LengthByte(n) == [b |-> "length", n |-> n]
BodyByte(update_pb, k) == [b |-> "body", update_pb |-> update_pb, k |-> k]

RECURSIVE SerializeUpdates(_, _)

\* user_update.SerializeToString() after the loop of updates.add() and
\* fill_protobuf, from update i
SerializeUpdates(user_update, i) ==
    IF i > Len(user_update)
    THEN << >>
    ELSE LET update_pb == fill_protobuf(user_update[i])
             size == ByteSize(update_pb)
         IN  <<UpdatesTag, LengthByte(size)>>
             \o [k \in 1..size |-> BodyByte(update_pb, k)]
             \o SerializeUpdates(user_update, i + 1)

DecodeError ==
    Error("DecodeError", None, <<"Error parsing message">>)

RECURSIVE ParseUpdates(_, _)

\* user_update.ParseFromString(serialized_message), the updates parsed so
\* far in acc: a well-formed message is a run of embedded Updates, each
\* whole.  Bytes that are not one (ASCII digits in the place of a tag, an
\* Update cut short) make the parser raise.
ParseUpdates(serialized_message, acc) ==
    IF serialized_message = << >>
    THEN Return(PyList(acc))
    ELSE IF \/ Len(serialized_message) < 2
            \/ serialized_message[1] # UpdatesTag
            \/ serialized_message[2].b # "length"
    THEN Raise(DecodeError)
    ELSE LET size == serialized_message[2].n
             body == SubSeq(serialized_message, 3, 2 + size)
         IN  IF \/ Len(serialized_message) < 2 + size
                \/ \E k \in 1..size :
                      \/ body[k].b # "body"
                      \/ body[k] # BodyByte(body[1].update_pb, k)
                \/ ByteSize(body[1].update_pb) # size
             THEN Raise(DecodeError)
             ELSE ParseUpdates(SubSeq(serialized_message, 3 + size,
                                      Len(serialized_message)),
                               Append(acc, body[1].update_pb))

RECURSIVE Decimal(_)

\* the decimal digits of a natural number
Decimal(n) ==
    IF n < 10 THEN <<Digit(n)>> ELSE Append(Decimal(n \div 10), Digit(n % 10))

\* self._header_template.format(len(message)) with the template
\* "{:0<header_length>d}": zeros in front up to the width, never fewer
\* digits than the number has
Header(width, n) ==
    LET digits == Decimal(n)
    IN  [i \in 1..(width - Len(digits)) |-> Digit(0)] \o digits

\* header + message of UserHandler._write
Frame(width, user_update) ==
    LET message == SerializeUpdates(user_update, 1)
    IN  Header(width, Len(message)) \o message

RECURSIVE PyIntOfDigits(_, _)

\* int(header) for a header of ASCII digits
PyIntOfDigits(header, acc) ==
    IF header = << >>
    THEN acc
    ELSE PyIntOfDigits(Tail(header), 10 * acc + Head(header).d)

\* sock.recv(n): up to n of the bytes that have arrived
Recv(stream, n) ==
    [data |-> SubSeq(stream, 1, IF n < Len(stream) THEN n ELSE Len(stream)),
     rest |-> SubSeq(stream, (IF n < Len(stream) THEN n ELSE Len(stream)) + 1,
                     Len(stream))]

\* CameraControlClient.recv_updates on a socket holding the bytes stream:
\* the result and the bytes left unread
recv_updates(width, stream) ==
    LET header == Recv(stream, width)
    IN  IF header.data = << >>
        THEN [out |-> Return(None), rest |-> stream]
        ELSE IF \E i \in 1..Len(header.data) : header.data[i].b # "digit"
        THEN [out |-> Raise(Error("ValueError", None,
                                  <<"invalid literal for int()">>)),
              rest |-> header.rest]
        ELSE LET serialized_message ==
                     Recv(header.rest, PyIntOfDigits(header.data, 0))
             IN  IF serialized_message.data = << >>
                 THEN [out |-> Return(None), rest |-> serialized_message.rest]
                 ELSE [out |-> ParseUpdates(serialized_message.data, << >>),
                       rest |-> serialized_message.rest]

\* the updates a batch is made of
FrameUpdates ==
    {Stamped(Update(Str("server"), "alert", Str(""),
                    << <<"", Str("fee_temp_high")>> >>), 1500000),
     Stamped(Update(Str("fee_temperature"), "temperature", Str("C"),
                    << <<"1", Float(5)>>, <<"2", Float(15)>> >>), 2000250),
     Stamped(Update(Str("shutter"), "open_sensor", Str(""),
                    << <<"", PyInt(1)>> >>), 0)}

Batches ==
    UNION {[1..n -> FrameUpdates] : n \in 1..MaxBatch}

InitFraming ==
    /\ managers = <<[key |-> Str("_run_manager"), val |-> RunManager]>>
    /\ previousRun = 0
    /\ mgr_in = None
    /\ mgr_out = NoCall
    /\ mgr_seq = 0
    /\ parse_in = None
    /\ parse_out = NoCall
    /\ exec_in = None
    /\ exec_out = NoCall
    /\ exec_seq = 0
    /\ updates = << >>
    /\ timers = << >>
    /\ timer_heap = << >>
    /\ pc = "communicate"
    /\ received = None
    /\ dispatched = << >>
    /\ tick_error = None
    /\ error_step = "none"
    /\ inspected = << >>
    /\ conns = << >>
    /\ backlog = [input |-> 0, output |-> 0]
    /\ serial = 0
    /\ read_log = << >>
    /\ header_length \in 1..MaxHeader
    /\ wire = << >>
    /\ pending = << >>
    /\ decoded = None
    /\ list_in = None
    /\ shared_timer = None
    /\ thread = None
    /\ timed_pc = "none"
    /\ executions = 0

\* UserHandler._write(conn, mask) with a batch in self._user_update, on a
\* connection whose client has read all that was sent before
WriteBatch ==
    /\ wire = << >>
    /\ \E user_update \in Batches :
          /\ wire' = Frame(header_length, user_update)
          /\ pending' = user_update
    /\ decoded' = None
    /\ UNCHANGED <<managers, previousRun, callVars, serverVars,
                   transportVars, header_length, list_in, raceVars>>

\* the client calls recv_updates
RecvUpdates ==
    /\ wire # << >>
    /\ LET r == recv_updates(header_length, wire)
       IN  /\ decoded' = r.out
           /\ wire' = r.rest
    /\ UNCHANGED <<managers, previousRun, callVars, serverVars,
                   transportVars, header_length, pending, list_in,
                   raceVars>>

NextFraming ==
    \/ WriteBatch
    \/ RecvUpdates

SpecFraming == InitFraming /\ [][NextFraming]_vars

----------------------------------------------------------------------------
(* start_timer and _execute_timed_commands, statement by statement *)

MaxCount == 3

\* the timer dicts of a repeat block registered with a count, as
\* _execute_device_command_list leaves them: passed is execute_immediately
RegisteredTimers ==
    {[passed |-> PyBool(execute_immediately),
      num_executions |-> PyInt(n),
      registered_count |-> PyInt(n)] :
        execute_immediately \in BOOLEAN, n \in 1..MaxCount}

\* after threading.Timer(timer['interval'], start_timer).start(), with the
\* main loop about to enter _execute_timed_commands
InitRace ==
    /\ managers = <<[key |-> Str("_run_manager"), val |-> RunManager]>>
    /\ previousRun = 0
    /\ mgr_in = None
    /\ mgr_out = NoCall
    /\ mgr_seq = 0
    /\ parse_in = None
    /\ parse_out = NoCall
    /\ exec_in = None
    /\ exec_out = NoCall
    /\ exec_seq = 0
    /\ updates = << >>
    /\ timers = << >>
    /\ timer_heap = << >>
    /\ pc = "communicate"
    /\ received = None
    /\ dispatched = << >>
    /\ tick_error = None
    /\ error_step = "none"
    /\ inspected = << >>
    /\ conns = << >>
    /\ backlog = [input |-> 0, output |-> 0]
    /\ serial = 0
    /\ read_log = << >>
    /\ header_length = 1
    /\ wire = << >>
    /\ pending = << >>
    /\ decoded = None
    /\ list_in = None
    /\ shared_timer \in RegisteredTimers
    /\ thread = [pc |-> "start_timer", num_executions |-> None]
    /\ timed_pc = "test_count"
    /\ executions = 0

otherVars ==
    <<managers, previousRun, callVars, serverVars, transportVars,
      frameVars, list_in>>

\* the interval has elapsed; timer['passed'] = True
SetPassed ==
    /\ thread.pc = "start_timer"
    /\ shared_timer' = [shared_timer EXCEPT !.passed = PyBool(TRUE)]
    /\ thread' = [thread EXCEPT !.pc = "read"]
    /\ UNCHANGED <<timed_pc, executions, otherVars>>

\* num_executions = timer['num_executions']
ReadCount ==
    /\ thread.pc = "read"
    /\ thread' = [pc |-> "rearm", num_executions |-> shared_timer.num_executions]
    /\ UNCHANGED <<shared_timer, timed_pc, executions, otherVars>>

\* if num_executions is None or num_executions > 1: start a new
\* threading.Timer for start_timer; the thread ends either way
Rearm ==
    /\ thread.pc = "rearm"
    /\ thread' = [pc |-> IF \/ thread.num_executions = None
                            \/ thread.num_executions.n > 1
                         THEN "start_timer"
                         ELSE "finished",
                  num_executions |-> None]
    /\ UNCHANGED <<shared_timer, timed_pc, executions, otherVars>>

\* if timer['num_executions'] is not None and
\* timer['num_executions'] <= 0: continue
TestCount ==
    /\ timed_pc = "test_count"
    /\ timed_pc' = IF /\ shared_timer.num_executions # None
                      /\ shared_timer.num_executions.n <= 0
                   THEN "test_count"
                   ELSE "test_passed"
    /\ UNCHANGED <<shared_timer, thread, executions, otherVars>>

\* if timer['passed']: when it is not, the loop is over and the next
\* tick calls _execute_timed_commands again
TestPassed ==
    /\ timed_pc = "test_passed"
    /\ timed_pc' = IF PyBoolOf(shared_timer.passed) THEN "clear" ELSE "test_count"
    /\ UNCHANGED <<shared_timer, thread, executions, otherVars>>

\* timer['passed'] = False
ClearPassed ==
    /\ timed_pc = "clear"
    /\ shared_timer' = [shared_timer EXCEPT !.passed = PyBool(FALSE)]
    /\ timed_pc' = "decrement"
    /\ UNCHANGED <<thread, executions, otherVars>>

\* if timer['num_executions'] is not None: timer['num_executions'] -= 1
Decrement ==
    /\ timed_pc = "decrement"
    /\ shared_timer' = IF shared_timer.num_executions = None
                THEN shared_timer
                ELSE [shared_timer EXCEPT
                        !.num_executions = PyInt(shared_timer.num_executions.n - 1)]
    /\ timed_pc' = "execute"
    /\ UNCHANGED <<thread, executions, otherVars>>

\* self._execute_device_command_list(timer['command_list'])
ExecuteList ==
    /\ timed_pc = "execute"
    /\ executions' = executions + 1
    /\ timed_pc' = "test_count"
    /\ UNCHANGED <<shared_timer, thread, otherVars>>

\* the statements of the timer thread
CallbackNext == SetPassed \/ ReadCount \/ Rearm

\* the statements of the main loop
TimedNext ==
    TestCount \/ TestPassed \/ ClearPassed \/ Decrement \/ ExecuteList

NextRace ==
    \/ SetPassed
    \/ ReadCount
    \/ Rearm
    \/ TestCount
    \/ TestPassed
    \/ ClearPassed
    \/ Decrement
    \/ ExecuteList

\* both threads keep being scheduled: the interpreter switches threads
\* every few milliseconds, and run_server calls _execute_timed_commands
\* in every tick
SpecRace ==
    /\ InitRace
    /\ [][NextRace]_vars
    /\ WF_vars(CallbackNext)
    /\ WF_vars(TimedNext)

----------------------------------------------------------------------------
(* Claims about the run manager *)

RunStateOf(d) == OGet(d, Str("_run_manager")).state

C1Table ==
    {<<"IDLE", "define_run", "DEFINED">>,
     <<"DEFINED", "initialize_run", "INITIALIZED">>,
     <<"DEFINED", "end_run", "TERMINATED">>,
     <<"INITIALIZED", "start_run", "ACTIVE">>,
     <<"INITIALIZED", "end_run", "TERMINATED">>,
     <<"ACTIVE", "end_run", "COMPLETE">>,
     <<"ACTIVE", "read_rate", "ACTIVE">>,
     <<"COMPLETE", "clear_run", "IDLE">>,
     <<"TERMINATED", "clear_run", "IDLE">>}

\* the instruction an update delivers, in the words of the claims: a run
\* instruction as a 'server' update, read_rate as target/trigger_rate
ClaimInstructions ==
    {"define_run", "initialize_run", "initialize_data_run",
     "initialize_rate_scan", "start_run", "end_run", "clear_run"}
ClaimInstruction(update) ==
    IF update.device = Str("target") /\ update.variable = "trigger_rate"
    THEN "read_rate"
    ELSE IF update.device = Str("server")
            /\ update.variable \in ClaimInstructions
         THEN update.variable
         ELSE ""

\* the instruction of an update as the code or the claim names it
ClaimInstructionOrServer(update) ==
    IF update.device = Str("server") /\ update.variable = "read_rate"
    THEN "read_rate"
    ELSE ClaimInstruction(update)

\* C1: starting from IDLE, every change of the run state made by
\* process_update is one of the nine entries of the transition table, taken
\* on the instruction of the update that was processed.
C1_OnlyTableTransitions ==
    [][RunStateOf(managers') # RunStateOf(managers)
        => \E t \in C1Table :
              /\ t[1] = RunStateOf(managers)
              /\ t[2] = ClaimInstructionOrServer(mgr_in')
              /\ t[3] = RunStateOf(managers')]_vars

\* the second run has gone through define, initialize, start and end
C1_Witness ==
    /\ OHas(managers, Str("_run_manager"))
    /\ RunStateOf(managers) = "COMPLETE"
    /\ OGet(managers, Str("_run_manager")).run_id = Float(2)

\* C2: every run instruction whose (state, instruction) pair is not in the
\* transition table raises CommandSequenceError and leaves state, run_id and
\* run_type unchanged.
C2_UnlistedPairRaises ==
    [][LET i == ClaimInstruction(mgr_in')
           before == OGet(managers, Str("_run_manager"))
           after == OGet(managers', Str("_run_manager"))
       IN  (i # "" /\ ~\E t \in C1Table : t[1] = before.state /\ t[2] = i)
            => /\ mgr_out'.kind = "raise"
               /\ mgr_out'.error.cls = "CommandSequenceError"
               /\ after.state = before.state
               /\ after.run_id = before.run_id
               /\ after.run_type = before.run_type]_vars

\* the run manager before and after a call, and the call made
RunBefore == OGet(managers, Str("_run_manager"))
RunAfter == OGet(managers', Str("_run_manager"))
RunCalled(instruction) ==
    mgr_seq' # mgr_seq /\ ClaimInstruction(mgr_in') = instruction

\* C12: end_run processed in ACTIVE moves the run manager to COMPLETE and
\* returns a command named end_data_run or end_rate_scan according to the
\* run type; end_run processed in DEFINED or INITIALIZED moves it to
\* TERMINATED and returns no command.
C12_EndRunCompletesOrTerminates ==
    [][RunCalled("end_run") =>
          /\ RunBefore.state = "ACTIVE" =>
                /\ RunAfter.state = "COMPLETE"
                /\ mgr_out'.kind = "return"
                /\ \/ /\ RunBefore.run_type = Str("data_run")
                      /\ mgr_out'.value =
                            UserCommand("end_data_run", EmptyDict)
                   \/ /\ RunBefore.run_type = Str("rate_scan")
                      /\ mgr_out'.value =
                            UserCommand("end_rate_scan", EmptyDict)
          /\ RunBefore.state \in {"DEFINED", "INITIALIZED"} =>
                /\ RunAfter.state = "TERMINATED"
                /\ mgr_out' = Return(None)]_vars

\* C13: the run manager in state DEFINED processing initialize_data_run or
\* initialize_rate_scan moves to INITIALIZED, records run_type data_run or
\* rate_scan respectively, and returns an initialize_run command carrying
\* the run_id allocated by the preceding define_run.
C13_InitializeRecordsRunType ==
    [][\A i \in {"initialize_data_run", "initialize_rate_scan"} :
          (RunCalled(i) /\ RunBefore.state = "DEFINED") =>
              /\ RunAfter.state = "INITIALIZED"
              /\ RunAfter.run_type =
                    Str(IF i = "initialize_data_run"
                        THEN "data_run" ELSE "rate_scan")
              /\ RunBefore.run_id # None
              /\ mgr_out' = Return(UserCommand("initialize_run",
                                        [run_id |-> RunBefore.run_id]))]_vars

\* C14: the run manager in state INITIALIZED processing start_run moves to
\* ACTIVE and returns start_data_run (carrying adc_interval and
\* end_run_interval) or start_rate_scan (carrying thresh = start_thresh)
\* according to the recorded run_type; whenever the state is ACTIVE the
\* run_type is data_run or rate_scan.
C14_StartRunFollowsRunType ==
    [][/\ (RunCalled("start_run") /\ RunBefore.state = "INITIALIZED") =>
             /\ RunAfter.state = "ACTIVE"
             /\ \/ /\ RunBefore.run_type = Str("data_run")
                   /\ mgr_out' = Return(UserCommand("start_data_run",
                          [adc_interval |-> Float(adc_interval),
                           end_run_interval |-> Float(run_interval)]))
                \/ /\ RunBefore.run_type = Str("rate_scan")
                   /\ mgr_out' = Return(UserCommand("start_rate_scan",
                          [thresh |-> Float(start_thresh)]))
       /\ RunAfter.state = "ACTIVE" =>
             RunAfter.run_type \in {Str("data_run"), Str("rate_scan")}]_vars

\* the value a sample carries under an id
HasValue(update, id) ==
    \E i \in 1..Len(update.values) : update.values[i][1] = id
ValueOf(update, id) ==
    update.values[CHOOSE i \in 1..Len(update.values) :
                      update.values[i][1] = id][2]

\* a trigger_rate sample with its threshold and rate is processed during
\* a run
SampleProcessed ==
    /\ RunCalled("read_rate")
    /\ RunBefore.state = "ACTIVE"
    /\ HasValue(mgr_in', "thresh")
    /\ HasValue(mgr_in', "rate")

\* C27: during a rate scan the run manager answers every trigger_rate
\* sample with a read_rate command whose threshold is lower than the
\* sample's by a whole number between min_spacing and max_spacing and is
\* not below stop_thresh, or, when the next threshold would fall below
\* stop_thresh, with end_rate_scan; so the thresholds only go down and the
\* scan ends after finitely many samples.
C27_RateScanStepsDownToItsEnd ==
    [][SampleProcessed =>
          LET thresh == ValueOf(mgr_in', "thresh").n
          IN  \/ /\ thresh - max_spacing < stop_thresh
                 /\ mgr_out' = Return(UserCommand("end_rate_scan", EmptyDict))
              \/ \E next_thresh \in
                        (thresh - max_spacing)..(thresh - min_spacing) :
                    /\ next_thresh >= stop_thresh
                    /\ mgr_out' = Return(UserCommand("read_rate",
                                     [thresh |-> Float(next_thresh)]))]_vars

\* C28: define_run resets the previous (threshold, rate) sample, and the
\* first trigger_rate sample processed in a run, the one that finds no
\* previous sample, is answered with a step of exactly max_spacing:
\* read_rate at the sample's threshold minus max_spacing, or end_rate_scan
\* when that is below stop_thresh.
C28_FirstStepIsMaxSpacing ==
    [][/\ (RunCalled("define_run") /\ RunBefore.state = "IDLE") =>
             /\ RunAfter.prev_thresh = None
             /\ RunAfter.prev_rate = None
       /\ (SampleProcessed /\ RunBefore.prev_thresh = None) =>
             LET next_thresh == ValueOf(mgr_in', "thresh").n - max_spacing
             IN  mgr_out' =
                     IF next_thresh >= stop_thresh
                     THEN Return(UserCommand("read_rate",
                                     [thresh |-> Float(next_thresh)]))
                     ELSE Return(UserCommand("end_rate_scan",
                                             EmptyDict))]_vars

----------------------------------------------------------------------------
(* Claims about the parser *)

ParsedKnown == parse_in # None /\ parse_in.command \in DOMAIN user_commands
ParsedLeaf == ParsedKnown /\ IsLeaf(user_commands[parse_in.command])
ParsedComposite == ParsedKnown /\ ~IsLeaf(user_commands[parse_in.command])

\* the declared defaults overlaid by the user values
Overlaid(declared, user) ==
    [a \in DOMAIN declared |->
        IF a \in DOMAIN user THEN user[a] ELSE declared[a]]

\* C5: for a leaf definition the parser raises CommandArgumentError whenever
\* a declared argument has no value after the defaults and the user values
\* are merged, so no DeviceCommand it returns has a null argument.
C5_MissingArgumentRaises ==
    ParsedLeaf =>
        LET declared == DefArgs(user_commands[parse_in.command])
            merged == Overlaid(declared, parse_in.args)
        IN  /\ (\E a \in DOMAIN declared : merged[a] = None)
                => /\ parse_out.kind = "raise"
                   /\ parse_out.error.cls = "CommandArgumentError"
            /\ parse_out.kind = "return"
                => \A i \in 1..Len(parse_out.value) :
                      \A a \in DOMAIN parse_out.value[i].args :
                          parse_out.value[i].args[a] # None

RoutedArgs(args, user, index) ==
    LET names == {a \in DOMAIN args : args[a].index = index}
    IN  [s \in {args[a].arg : a \in names} |->
            LET a == CHOOSE a \in names : args[a].arg = s
            IN  IF a \in DOMAIN user
                THEN user[a]
                ELSE IF "val" \in DOMAIN args[a] THEN args[a].val ELSE None]

RECURSIVE Concatenation(_)
Concatenation(lists) ==
    IF lists = << >> THEN << >> ELSE Head(lists) \o Concatenation(Tail(lists))

\* C7: the list parsed from a composite is the concatenation, in command_list
\* order, of the lists parsed from each sub-command with the arguments routed
\* to its index.
C7_CompositeIsConcatenation ==
    ParsedComposite =>
        LET cmd_def == user_commands[parse_in.command]
            n == Len(cmd_def.command_list)
            subs == [i \in 1..n |->
                        ParseUserCommand(UserCommand(
                            cmd_def.command_list[i],
                            RoutedArgs(DefArgs(cmd_def), parse_in.args,
                                       i - 1)))]
        IN  IF \A i \in 1..n : subs[i].kind = "return"
            THEN parse_out =
                     Return(Concatenation([i \in 1..n |-> subs[i].value]))
            ELSE parse_out.kind = "raise"

\* a composite holding another composite was flattened to its six leaves
C7_Witness ==
    /\ ParsedComposite
    /\ parse_in.command = "check_camera"
    /\ DOMAIN parse_in.args = {"run"}
    /\ parse_out.kind = "return"
    /\ [i \in 1..Len(parse_out.value) |-> parse_out.value[i].command]
         = <<"read_temperature", "read_open_sensor", "enter_repeat_mode",
             "read_temperature", "exit_repeat_mode", "read_open_sensor">>

----------------------------------------------------------------------------
(* Claims about the alert manager *)

IsCommand(out, command) ==
    /\ out.kind = "return"
    /\ out.value # None
    /\ out.value.command = command

ReturnsCommand(out) == out.kind = "return" /\ out.value # None

\* the update is for the manager's device and variable and has values
Matches(am, update) ==
    /\ update # None
    /\ update.device = am.device
    /\ Str(update.variable) = am.variable
    /\ update.values # << >>

\* the side of the limits a numeric value lies on
IsOutside(am, value) ==
    value.t = "float" /\ ~(am.lower_limit.n <= value.n
                            /\ value.n <= am.upper_limit.n)
IsInside(am, value) ==
    value.t = "float" /\ am.lower_limit.n <= value.n
                      /\ value.n <= am.upper_limit.n
AllOutside(am, update) ==
    \A i \in 1..Len(update.values) : IsOutside(am, update.values[i][2])
AllInside(am, update) ==
    \A i \in 1..Len(update.values) : IsInside(am, update.values[i][2])

\* a command is returned exactly when the alerted flag flips: issue_alert
\* on false -> true, clear_alert on true -> false
CommandsFollowTheFlag ==
    LET am == OGet(managers, Str("a1"))
        am2 == OGet(managers', Str("a1"))
    IN  /\ IsCommand(mgr_out', "issue_alert")
            <=> (~am.alerted /\ am2.alerted)
        /\ IsCommand(mgr_out', "clear_alert")
            <=> (am.alerted /\ ~am2.alerted)
        /\ ReturnsCommand(mgr_out')
            => mgr_out'.value.command \in {"issue_alert", "clear_alert"}

\* of two consecutive updates on the same side the second returns nothing
SameSideIsSilent ==
    LET am == OGet(managers, Str("a1"))
    IN  (Matches(am, mgr_in) /\ Matches(am, mgr_in')
         /\ \/ AllOutside(am, mgr_in) /\ AllOutside(am, mgr_in')
            \/ AllInside(am, mgr_in) /\ AllInside(am, mgr_in'))
        => ~ReturnsCommand(mgr_out')

\* C9 as stated: commands alternate with the flag, a second update on the
\* same side returns nothing, and processing the same update twice in
\* succession never returns a command the second time.
C9_SameUpdateTwiceIsSilent ==
    [][/\ CommandsFollowTheFlag
       /\ SameSideIsSilent
       /\ mgr_in' = mgr_in => ~ReturnsCommand(mgr_out')]_vars

\* C9 amended: commands alternate with the flag, a second update on the same
\* side returns nothing, and processing the same update twice in succession
\* returns no command the second time when the update does not hold a value
\* inside the limits together with a value outside them.
C9_EdgeTriggered ==
    [][/\ CommandsFollowTheFlag
       /\ SameSideIsSilent
       /\ LET am == OGet(managers, Str("a1"))
              vals == {mgr_in'.values[i][2] : i \in 1..Len(mgr_in'.values)}
          IN  (/\ mgr_in' = mgr_in
               /\ ~(\E v \in vals : IsInside(am, v)
                    /\ \E w \in vals : IsOutside(am, w)))
              => ~ReturnsCommand(mgr_out')]_vars

\* an alert was issued, the next update was out of range too and returned
\* nothing
C9_Witness ==
    /\ OHas(managers, Str("a1"))
    /\ OGet(managers, Str("a1")).alerted
    /\ Matches(OGet(managers, Str("a1")), mgr_in)
    /\ Len(mgr_in.values) = 2
    /\ AllOutside(OGet(managers, Str("a1")), mgr_in)
    /\ mgr_out = Return(None)

----------------------------------------------------------------------------
(* Claims about the main loop *)

ErrorUpdates(us) == {k \in 1..Len(us) : us[k].variable = "ERROR"}

UnknownName(command) ==
    command # None /\ command.command \notin DOMAIN user_commands

\* C3: a UserCommand whose command name is not a key of the command
\* definition table does not terminate the server: once the tick that
\* received it has executed it, the server is still running and one ERROR
\* update is in the pending list.
C3_UnknownNameKeepsServing ==
    (UnknownName(received) /\ pc # "execute")
        => /\ pc # "crashed"
           /\ Cardinality(ErrorUpdates(updates)) = 1

\* a step of the loop body in which an exception of a control error class
\* is raised
ControlErrorRaised ==
    /\ pc \in {"execute", "timed", "managers"}
    /\ tick_error = None
    /\ tick_error' # None
    /\ tick_error'.cls \in ControlErrorClasses

\* the pending list after the step holds exactly one ERROR update, the last
\* one, for the given device and with the message of the error, and the
\* loop is at the top of the next tick
OneErrorUpdateFor(device) ==
    /\ pc' = "communicate"
    /\ updates' # << >>
    /\ ErrorUpdates(updates') = {Len(updates')}
    /\ updates'[Len(updates')].device = device
    /\ updates'[Len(updates')].values =
           << <<"", [t |-> "message", text |-> tick_error'.message]>> >>

ValidationFailed ==
    /\ error_step = "execute"
    /\ tick_error # None
    /\ tick_error.cls = "CommandArgumentError"
    /\ \/ ParseUserCommand(received).kind = "raise"
       \/ tick_error.message[1] = "enter_repeat_mode"

\* C8: when a composite user command is executed and a command of its
\* flattened list fails argument validation, no DeviceCommand of that
\* composite has been dispatched to any device controller.
C8_ValidationPrecedesDispatch ==
    (/\ received # None
     /\ received.command \in DOMAIN user_commands
     /\ ~IsLeaf(user_commands[received.command])
     /\ ValidationFailed)
        => dispatched = << >>

\* C10: both limits stored in every registered AlertManager are floats.
C10_RegisteredLimitsAreFloats ==
    \A j \in 1..Len(managers) :
        managers[j].val.cls = "AlertManager"
            => /\ managers[j].val.lower_limit.t = "float"
               /\ managers[j].val.upper_limit.t = "float"

----------------------------------------------------------------------------
(* Claims about the server's own commands *)

AlertArgs == {"name", "device", "variable", "lower_limit", "upper_limit"}

\* the argument set is exactly the five names, every value non-null
ExactlyTheFive(args) ==
    /\ DOMAIN args = AlertArgs
    /\ \A a \in AlertArgs : args[a] # None

\* the call just made was set_alert
SetAlertCalled == exec_seq' # exec_seq /\ exec_in'.command = "set_alert"

\* the call registered an AlertManager under the given name
Registered ==
    /\ exec_out'.kind = "return"
    /\ OHas(managers', exec_in'.args.name)
    /\ LET m == OGet(managers', exec_in'.args.name)
       IN  /\ m.cls = "AlertManager"
           /\ m.name = exec_in'.args.name
           /\ m.device = exec_in'.args.device
           /\ m.variable = exec_in'.args.variable
           /\ ~m.alerted
    /\ \A k \in OKeys(managers) \ {exec_in'.args.name} :
           OHas(managers', k) /\ OGet(managers', k) = OGet(managers, k)
    /\ OKeys(managers') = OKeys(managers) \cup {exec_in'.args.name}

\* the call raised CommandArgumentError and left the registry as it was
Rejected ==
    /\ exec_out'.kind = "raise"
    /\ exec_out'.error.cls = "CommandArgumentError"
    /\ managers' = managers

C30_RunManagerStaysRegistered ==
    /\ OHas(managers, Str("_run_manager"))
    /\ OGet(managers, Str("_run_manager")) = RunManager

----------------------------------------------------------------------------
(* Claims about the transport exchange *)

\* an exchange has run and returned to the main loop
Exchanged == pc = "communicate" /\ pc' = "execute"

\* the output clients connected at the exchange
ConnectedOutputs ==
    {c \in 1..Len(conns) :
        conns[c].kind = "output" /\ conns[c].registered
            /\ conns[c].peer = "open"}

Serials(us) == [i \in 1..Len(us) |-> SerialOf(us[i])]

\* C15: every Update in the pending list at the start of a tick is sent
\* exactly once to every output client connected at that exchange; none is
\* discarded from the pending list without having been sent to each such
\* client, and none is sent twice to the same client.
C15_EveryUpdateReachesEveryClient ==
    [][Exchanged =>
          \A c \in ConnectedOutputs :
              /\ updates' = << >>
              /\ conns'[c].got = conns[c].got \o Serials(updates)
              /\ \A i, j \in 1..Len(conns'[c].got) :
                    i # j => conns'[c].got[i] # conns'[c].got[j]]_vars

\* C16: communicate_user surfaces at most one UserCommand per tick: of the
\* commands read in a tick the one read last is returned, a tick in which
\* nothing was read returns None, and a command that was read is consumed
\* from its connection, so that no later tick reads it again.
C16_LastCommandReadWins ==
    [][Exchanged =>
          /\ received' = IF read_log' = << >>
                         THEN None
                         ELSE read_log'[Len(read_log')].command
          /\ \A i \in 1..Len(read_log') :
                LET e == read_log'[i]
                IN  /\ e.pos = conns[e.conn].consumed + 1
                    /\ e.command = MessageCommand(e.conn, e.pos)
                    /\ conns'[e.conn].consumed = e.pos
                    /\ \A j \in 1..Len(read_log') :
                          i # j => read_log'[j].conn # e.conn
          /\ \A c \in 1..Len(conns) :
                conns'[c].registered =>
                    conns'[c].consumed >= conns[c].consumed]_vars

\* two input connections delivered a command each in one tick, and the
\* second one read was returned
C16_Witness ==
    /\ pc = "execute"
    /\ Len(read_log) = 2
    /\ read_log[1].command # read_log[2].command
    /\ received = read_log[2].command

\* the connection has a socket-level failure to report at this exchange: a
\* reset, an end of stream, or a message of which only the header is there
SocketFailure(c) ==
    /\ conns[c].registered
    /\ \/ conns[c].peer = "reset"
       \/ /\ conns[c].kind = "input"
          /\ \/ conns[c].peer = "closed" /\ conns[c].inbuf = << >>
             \/ conns[c].inbuf # << >> /\ Head(conns[c].inbuf) = "header"

\* C17: a socket-level failure on one client connection only causes that
\* connection to be deregistered and closed: the exchange returns to the
\* main loop, which keeps running.
C17_SocketFailureStaysLocal ==
    [][(pc = "communicate" /\ pc' # pc) =>
          /\ pc' = "execute"
          /\ \A c \in 1..Len(conns) :
                (SocketFailure(c) /\ (updates # << >> \/ conns[c].kind = "input"))
                    => ~conns'[c].registered]_vars

----------------------------------------------------------------------------
(* Claims about the repeat timers *)

\* the timer dicts that exist (created and not reclaimed)
Live(heap) == {id \in 1..Len(heap) : heap[id].timer # None}

\* the timer dicts self._timers refers to
InMap(ts) == {ts[j].val : j \in 1..Len(ts)}

\* C18: for a repeat timer registered with a bounded num_executions = n > 0,
\* over every interleaving of timer firings and server ticks the buffered
\* command list is executed at most n times in total, at most once per tick
\* and only by the timed step of a tick that found passed true; each
\* execution clears passed and decrements the remaining count by one, and a
\* timer whose count is exhausted is not executed.
C18_BoundedTimerRunsAtMostItsCount ==
    [][\A id \in Live(timer_heap') :
          timer_heap'[id].registered_count # None =>
              /\ timer_heap'[id].runs <= timer_heap'[id].registered_count.n
              /\ id \in Live(timer_heap) =>
                    LET before == timer_heap[id]
                        after == timer_heap'[id]
                    IN  /\ after.runs \in {before.runs, before.runs + 1}
                        /\ after.runs = before.runs + 1 =>
                              /\ pc = "timed"
                              /\ PyBoolOf(before.timer.passed)
                              /\ ~PyBoolOf(after.timer.passed)
                              /\ before.timer.num_executions.n > 0
                              /\ after.timer.num_executions.n =
                                    before.timer.num_executions.n - 1]_vars

\* a timer registered with the count 2 has been executed twice, is
\* exhausted, and has been passed over by the timed step of a later tick
C18_Witness ==
    \E id \in Live(timer_heap) :
        /\ id \in InMap(timers)
        /\ timer_heap[id].registered_count = PyInt(2)
        /\ timer_heap[id].runs = 2
        /\ timer_heap[id].timer.num_executions = PyInt(0)
        /\ ~timer_heap[id].ran
        /\ pc = "managers"

\* the user command of this tick is cmd and the step executing it is next
Executing(cmd) ==
    /\ pc = "execute"
    /\ received # None
    /\ received.command = cmd

\* C19: after stop_repeating_command(name=X) has executed the timer map has
\* no entry for X, and a timer dict that the map no longer refers to is
\* never executed again and never comes back into the map, whatever its
\* background timer does: a firing on it leaves the timer map, the timers
\* in the map and the update list as they are.
C19_StoppedTimerIsNeverExecuted ==
    [][/\ (Executing("stop_repeating_command") /\ pc' = "timed") =>
             ~OHas(timers', received.args.name)
       /\ \A id \in Live(timer_heap) \ InMap(timers) :
             /\ id \notin InMap(timers')
             /\ id \in Live(timer_heap') =>
                   /\ timer_heap'[id].runs = timer_heap[id].runs
                   /\ (pc = "timed" /\ pc' # pc) => ~timer_heap'[id].ran
             /\ (\/ id \notin Live(timer_heap')
                 \/ timer_heap'[id].timer # timer_heap[id].timer
                 \/ timer_heap'[id].armed # timer_heap[id].armed) =>
                   /\ timers' = timers
                   /\ \A other \in InMap(timers) :
                         timer_heap'[other] = timer_heap[other]
                   /\ updates' = updates
                   /\ pc' = pc]_vars

\* a timer that was stopped in an earlier tick has its flag set by its
\* background timer and has been through the timed step of this tick
C19_Witness ==
    \E id \in Live(timer_heap) \ InMap(timers) :
        /\ PyBoolOf(timer_heap[id].timer.passed)
        /\ received = None
        /\ pc = "managers"

\* C20: modify_repeating_command(name, arg, value) on a registered timer
\* changes exactly the named field of that timer and nothing else, after
\* which the timed step and the background timer keep servicing the timer
\* under the new setting; for a name that is not registered it raises
\* CommandArgumentError and leaves the timer map as it is.
C20_ModifiedTimerKeepsBeingServiced ==
    [][/\ (Executing("modify_repeating_command") /\ pc' # pc) =>
             /\ timers' = timers
             /\ IF OHas(timers, received.args.name)
                THEN LET target == OGet(timers, received.args.name)
                     IN  /\ pc' = "timed"
                         /\ \A id \in Live(timer_heap) :
                               timer_heap'[id] =
                                   IF id = target
                                   THEN [timer_heap[id] EXCEPT
                                           !.timer[KeyOf(received.args.arg)]
                                               = received.args.value]
                                   ELSE timer_heap[id]
                ELSE /\ tick_error' # None
                     /\ tick_error'.cls = "CommandArgumentError"
                     /\ timer_heap' = timer_heap
       /\ pc = "timed" => pc' # "crashed"
       /\ \A id \in Live(timer_heap) \cap InMap(timers) :
             (/\ timer_heap[id].armed
              /\ timer_heap[id].timer.num_executions = None
              /\ timer_heap'[id].timer.passed # timer_heap[id].timer.passed
              /\ pc' = pc) => timer_heap'[id].armed]_vars

\* C25: the timer callback only sets its timer's passed flag and re-arms
\* itself: a step in which the main loop does not move leaves the update
\* list, the commands dispatched to device controllers, the managers and
\* the timer map as they are, and changes no field of a timer dict other
\* than passed, which it can only set to True.
C25_CallbackOnlySetsPassed ==
    [][pc' = pc =>
          /\ UNCHANGED <<updates, dispatched, inspected, managers,
                         previousRun, timers, received, tick_error>>
          /\ \A id \in Live(timer_heap') :
                LET before == timer_heap[id]
                    after == timer_heap'[id]
                IN  /\ after.timer.num_executions =
                           before.timer.num_executions
                    /\ after.timer.command_list = before.timer.command_list
                    /\ after.timer.interval = before.timer.interval
                    /\ after.timer.execute_immediately =
                           before.timer.execute_immediately
                    /\ after.timer.passed
                           \in {before.timer.passed, PyBool(TRUE)}
                    /\ after.runs = before.runs]_vars

\* a callback has run for a timer that was registered without
\* execute_immediately and with a count, and did not re-arm
C25_Witness ==
    \E id \in Live(timer_heap) :
        /\ id \in InMap(timers)
        /\ timer_heap[id].timer.passed = PyBool(TRUE)
        /\ timer_heap[id].timer.execute_immediately # PyBool(TRUE)
        /\ timer_heap[id].timer.num_executions # None
        /\ ~timer_heap[id].armed

\* C26: when the timer thread and the main loop are both scheduled
\* fairly, a repeat timer registered with a count n > 0 (with or without
\* execute_immediately) and never stopped or modified ends up with its
\* command list executed exactly n times, however the statements of the
\* callback interleave with those of the main loop.
C26_BoundedTimerRunsExactlyItsCount ==
    /\ [](shared_timer # None => executions <= shared_timer.registered_count.n)
    /\ <>[](shared_timer # None /\ executions = shared_timer.registered_count.n)

----------------------------------------------------------------------------
(* Claims about the framing *)

\* the client reads a frame that the server wrote whole
FrameRead ==
    /\ pending # << >>
    /\ wire = Frame(header_length, pending)
    /\ wire' # wire

\* what the client holds is the batch as the server filled it in
SameBatch(out, user_update) ==
    /\ out.kind = "return"
    /\ out.value.t = "list"
    /\ Len(out.value.items) = Len(user_update)
    /\ \A i \in 1..Len(user_update) :
          /\ out.value.items[i].device = PyStr(user_update[i].device)
          /\ out.value.items[i].variable = user_update[i].variable
          /\ out.value.items[i].unit = PyStr(user_update[i].unit)
          /\ ToMicroseconds(out.value.items[i].timestamp) =
                 user_update[i].timestamp
          /\ Len(out.value.items[i].values) = Len(user_update[i].values)
          /\ \A j \in 1..Len(user_update[i].values) :
                /\ out.value.items[i].values[j].id = user_update[i].values[j][1]
                /\ out.value.items[i].values[j].value =
                       PyStr(user_update[i].values[j][2])

\* C21: a batch of updates framed by the server (a decimal header of
\* header_length digits and the serialized payload) and read by the
\* client's recv_updates with the same header_length comes back with the
\* same number of updates in the same order, each with its device,
\* variable, unit, timestamp and ordered (id, value) pairs, whatever the
\* length of the payload.
C21_FramingRoundTrip ==
    [][FrameRead => SameBatch(decoded', pending)]_vars

----------------------------------------------------------------------------
(* Claims about the manager loop and the pending list *)

\* the manager loop of a tick runs to its end, no step of the tick having
\* raised
LoopCompleted ==
    /\ pc = "managers"
    /\ pc' = "communicate"
    /\ tick_error' = None

\* the number of process_update calls on manager m for the update at
\* position k of the pending list
Calls(log, m, k) ==
    Cardinality({i \in 1..Len(log) :
                    log[i] = [manager |-> m, position |-> k]})

\* C22: in a tick that raises no error, every update accumulated in the
\* tick (by the user command, by timed jobs or by the command a manager
\* returned) is passed to process_update of every registered manager
\* exactly once before the tick ends, whatever the order of the managers.
C22_EveryUpdateToEveryManagerOnce ==
    [][LoopCompleted =>
          \A j \in 1..Len(managers') : \A k \in 1..Len(updates') :
              Calls(inspected', managers'[j].key, k) = 1]_vars

IsPrefix(a, b) == Len(a) <= Len(b) /\ SubSeq(b, 1, Len(a)) = a

\* C23: within one tick the updates are appended to the pending list in
\* the order of the steps that produce them (the user command, then the
\* timed jobs, then the commands the managers returned, then the ERROR
\* update if the tick raised a control error); no step reorders or drops
\* what is already in the list, which the next exchange hands to _write as
\* it is.
C23_PendingListKeepsAppendOrder ==
    [][/\ pc \in {"execute", "timed", "managers"} =>
             IsPrefix(updates, updates')
       /\ (pc # "communicate" /\ pc' = "communicate"
              /\ tick_error' # None) =>
             /\ updates' # << >>
             /\ updates'[Len(updates')] = ErrorUpdate(tick_error')
             /\ \A k \in 1..(Len(updates') - 1) :
                   updates'[k].variable # "ERROR"]_vars

\* a tick has ended with an update of the user command, an update of a
\* timed job and the update of an alert a manager asked for, in this order
C23_Witness ==
    /\ pc = "communicate"
    /\ received # None
    /\ received.command = "read_temperature"
    /\ tick_error = None
    /\ Len(updates) >= 3
    /\ Len(inspected) > Len(updates)
    /\ updates[1].variable = "temperature"
    /\ updates[2].variable = "temperature"
    /\ updates[3].variable = "alert"

\* a tick ends: run_server goes back to the top of its loop
TickEnds == pc # "communicate" /\ pc' = "communicate"

\* the updates of the ending tick that the user command and the timed jobs
\* produced: what the pending list held when the manager loop began, or
\* all but the ERROR update when the tick did not get that far
ProducedBeforeManagers ==
    IF pc = "managers" THEN Len(updates) ELSE Len(updates') - 1

\* C29: in every tick, each update produced by the user command or by a
\* timed job is examined by every registered AlertManager before the tick
\* ends and the update is sent and dropped, also when a step of the tick
\* raised a control error.
C29_AlertManagersSeeEveryUpdate ==
    [][TickEnds =>
          \A j \in 1..Len(managers') :
              managers'[j].val.cls = "AlertManager" =>
                  \A k \in 1..ProducedBeforeManagers :
                      Calls(inspected', managers'[j].key, k) >= 1]_vars

----------------------------------------------------------------------------
(* Claims about repeat blocks in a command list *)

\* the nesting depth after entry i of a list: openings less closings
Depth(list, i) ==
    Cardinality({k \in 1..i : IsMarker(list[k], "enter_repeat_mode")})
    - Cardinality({k \in 1..i : IsMarker(list[k], "exit_repeat_mode")})

Balanced(list) ==
    /\ \A i \in 1..Len(list) : Depth(list, i) >= 0
    /\ Depth(list, Len(list)) = 0

\* the positions of the outermost opening markers, and for each the
\* position of the marker that closes it
OutermostOpenings(list) ==
    {i \in 1..Len(list) :
        IsMarker(list[i], "enter_repeat_mode") /\ Depth(list, i) = 1}

Closing(list, i) ==
    CHOOSE j \in (i + 1)..Len(list) :
        /\ Depth(list, j) = 0
        /\ \A k \in i..(j - 1) : Depth(list, k) > 0

\* the number of outermost openings up to position i
Rank(list, i) == Cardinality({k \in OutermostOpenings(list) : k <= i})

\* the positions outside every repeat block
Outside(list) ==
    {i \in 1..Len(list) :
        /\ Depth(list, i) = 0
        /\ ~IsMarker(list[i], "exit_repeat_mode")}

RECURSIVE Pick(_, _, _)

\* the entries of a list at the positions of a set, in the list's order
Pick(list, positions, i) ==
    IF i > Len(list)
    THEN << >>
    ELSE (IF i \in positions THEN <<list[i]>> ELSE << >>)
         \o Pick(list, positions, i + 1)

\* C24: _execute_device_command_list on a list with balanced, possibly
\* nested enter_repeat_mode/exit_repeat_mode markers registers exactly
\* one timer for each outermost pair, under the name
\* the pair's opening marker gives, holding every entry between the pair
\* in the original order (inner markers included); inner pairs have
\* registered nothing, and the commands dispatched to device controllers
\* are exactly the entries outside every pair.
C24_OutermostPairRegistersOneTimer ==
    (list_in # None /\ Balanced(list_in.items)) =>
        LET list == list_in.items
            openings == OutermostOpenings(list)
        IN  /\ Len(timer_heap) = Cardinality(openings)
            /\ \A i \in openings :
                  /\ timer_heap[Rank(list, i)].timer.command_list =
                         SubSeq(list, i + 1, Closing(list, i) - 1)
                  /\ OHas(timers, list[i].args.name)
                  /\ OGet(timers, list[i].args.name) >= Rank(list, i)
            /\ \A name \in OKeys(timers) :
                  \E i \in openings :
                      /\ list[i].args.name = name
                      /\ OGet(timers, name) = Rank(list, i)
            /\ dispatched = Pick(list, Outside(list), 1)
            /\ tick_error = None

\* a list with a block nested in a block, commands inside both and a
\* command outside, has been executed
C24_Witness ==
    /\ list_in # None
    /\ Balanced(list_in.items)
    /\ tick_error = None
    /\ \E i \in OutermostOpenings(list_in.items) :
          /\ Closing(list_in.items, i) = i + 4
          /\ IsMarker(list_in.items[i + 2], "enter_repeat_mode")
    /\ Len(timer_heap) = 1
    /\ Len(timers) = 1
    /\ Len(dispatched) = 1

====
